---- MODULE Spec2Model ----
(***************************************************************************)
(* Lumina: ratio resolution (services/geminiService.ts), the local        *)
(* artifact store (services/storageService.ts) and the handlers of the    *)
(* Generator, FreeGenerator, Editor and LogoDesigner components that tie   *)
(* them to the upstream image call.                                        *)
(***************************************************************************)
EXTENDS Integers, Sequences, FiniteSets, TLC

(***************************************************************************)
(* JavaScript numbers.  The dimensions the components hold are the result  *)
(* of parseInt: an integer or NaN.  The quotient width / height and the    *)
(* differences Math.abs(curr.r - ratio) are IEEE-754 binary64 values,      *)
(* modelled exactly: a finite double is s * (hi * 2^28 + lo) * 2^e with a  *)
(* 53-bit significand (2^52 <= hi * 2^28 + lo < 2^53) or zero, and every   *)
(* operation rounds to nearest, ties to even.                              *)
(***************************************************************************)
P24 == 16777216
P25 == 33554432
P27 == 134217728
P28 == 268435456

NaN == [nan |-> TRUE, v |-> 0]
Num(n) == [nan |-> FALSE, v |-> n]

AbsInt(n) == IF n < 0 THEN 0 - n ELSE n
SignInt(n) == IF n < 0 THEN 0 - 1 ELSE 1

DNaN == [k |-> "nan", s |-> 1, hi |-> 0, lo |-> 0, e |-> 0]
DInf(s) == [k |-> "inf", s |-> s, hi |-> 0, lo |-> 0, e |-> 0]
DZero == [k |-> "fin", s |-> 1, hi |-> 0, lo |-> 0, e |-> 0]
DFin(s, hi, lo, e) == [k |-> "fin", s |-> s, hi |-> hi, lo |-> lo, e |-> e]
DIsZero(x) == x.k = "fin" /\ x.hi = 0 /\ x.lo = 0

\* significand + 1 (round up), renormalising when it reaches 2^53
DRoundInc(s, hi, lo, e, up) ==
  IF ~up THEN DFin(s, hi, lo, e)
  ELSE IF lo + 1 < P28 THEN DFin(s, hi, lo + 1, e)
  ELSE IF hi + 1 < P25 THEN DFin(s, hi + 1, 0, e)
  ELSE DFin(s, P24, 0, e + 1)

\* n further quotient bits of rem / d by long division
RECURSIVE DivBits(_, _, _, _)
DivBits(rem, d, n, acc) ==
  IF n = 0 THEN [q |-> acc, r |-> rem]
  ELSE IF 2 * rem >= d THEN DivBits(2 * rem - d, d, n - 1, 2 * acc + 1)
  ELSE DivBits(2 * rem, d, n - 1, 2 * acc)

RECURSIVE ShiftDown(_, _)
ShiftDown(a, b) == IF 2 * b <= a THEN 1 + ShiftDown(a, 2 * b) ELSE 0
RECURSIVE ShiftUp(_, _)
ShiftUp(a, b) == IF a >= b THEN 0 ELSE 1 + ShiftUp(2 * a, b)

\* the double nearest to a / b, for integers a, b > 0
DivMag(s, a, b) ==
  LET t  == IF a >= b THEN ShiftDown(a, b) ELSE 0 - ShiftUp(a, b)
      n  == IF t >= 0 THEN a ELSE a * (2 ^ (0 - t))
      d  == IF t >= 0 THEN b * (2 ^ t) ELSE b
      h1 == DivBits(n - d, d, 24, 1)
      l1 == DivBits(h1.r, d, 28, 0)
      up == 2 * l1.r > d \/ (2 * l1.r = d /\ l1.q % 2 = 1)
  IN  DRoundInc(s, h1.q, l1.q, t - 52, up)

\* JavaScript's w / h on two numbers that hold integers or NaN
DDiv(w, h) ==
  IF w.nan \/ h.nan THEN DNaN
  ELSE IF h.v = 0 THEN (IF w.v = 0 THEN DNaN ELSE DInf(SignInt(w.v)))
  ELSE IF w.v = 0 THEN DZero
  ELSE DivMag(SignInt(w.v) * SignInt(h.v), AbsInt(w.v), AbsInt(h.v))

\* the significand with three extra low bits (guard, round, sticky)
Ext(x) == [H |-> x.hi * 8 + (x.lo \div P25), L |-> (x.lo % P25) * 8]

ShiftRSticky(x, d) ==
  LET r == IF d = 0 THEN [H |-> x.H, L |-> x.L, lost |-> FALSE]
           ELSE IF d < 28 THEN
             [H |-> x.H \div (2 ^ d),
              L |-> (x.H % (2 ^ d)) * (2 ^ (28 - d)) + (x.L \div (2 ^ d)),
              lost |-> x.L % (2 ^ d) # 0]
           ELSE IF d = 28 THEN [H |-> 0, L |-> x.H, lost |-> x.L # 0]
           ELSE IF d < 56 THEN
             [H |-> 0, L |-> x.H \div (2 ^ (d - 28)),
              lost |-> (x.H % (2 ^ (d - 28)) # 0) \/ x.L # 0]
           ELSE [H |-> 0, L |-> 0, lost |-> x.H # 0 \/ x.L # 0]
  IN  [H |-> r.H, L |-> IF r.lost /\ r.L % 2 = 0 THEN r.L + 1 ELSE r.L]

\* drop the three extra bits, rounding to nearest, ties to even
RoundExt(s, H, L, e) ==
  LET hi  == H \div 8
      lo  == (H % 8) * P25 + (L \div 8)
      grs == L % 8
      up  == grs > 4 \/ (grs = 4 /\ lo % 2 = 1)
  IN  DRoundInc(s, hi, lo, e, up)

RECURSIVE NormL(_, _, _, _)
NormL(s, H, L, e) ==
  IF H >= P27 THEN RoundExt(s, H, L, e)
  ELSE NormL(s, 2 * H + (L \div P27), (L % P27) * 2, e - 1)

MagLess(x, y) ==
  IF DIsZero(y) THEN FALSE
  ELSE IF DIsZero(x) THEN TRUE
  ELSE IF x.e # y.e THEN x.e < y.e
  ELSE IF x.hi # y.hi THEN x.hi < y.hi
  ELSE x.lo < y.lo

\* |big| - |small| with the sign s, for |big| >= |small| > 0
MagSub(s, big, small) ==
  LET B  == Ext(big)
      S  == ShiftRSticky(Ext(small), big.e - small.e)
      bw == IF B.L < S.L THEN 1 ELSE 0
      L  == B.L - S.L + bw * P28
      H  == B.H - S.H - bw
  IN  IF H = 0 /\ L = 0 THEN DZero ELSE NormL(s, H, L, big.e)

\* |big| + |small| with the sign s, for |big| >= |small| > 0
MagAdd(s, big, small) ==
  LET B  == Ext(big)
      S  == ShiftRSticky(Ext(small), big.e - small.e)
      L0 == B.L + S.L
      L  == L0 % P28
      H  == B.H + S.H + (L0 \div P28)
  IN  IF H < P28 THEN RoundExt(s, H, L, big.e)
      ELSE RoundExt(s, H \div 2,
                    (H % 2) * P27 + (L \div 2) + (IF L % 4 = 1 THEN 1 ELSE 0),
                    big.e + 1)

DNeg(x) == [x EXCEPT !.s = 0 - x.s]

\* x + y on doubles
DAdd(x, y) ==
  IF x.k = "nan" \/ y.k = "nan" THEN DNaN
  ELSE IF x.k = "inf" THEN (IF y.k = "inf" /\ y.s # x.s THEN DNaN ELSE x)
  ELSE IF y.k = "inf" THEN y
  ELSE IF DIsZero(y) THEN x
  ELSE IF DIsZero(x) THEN y
  ELSE LET big   == IF MagLess(x, y) THEN y ELSE x
           small == IF MagLess(x, y) THEN x ELSE y
       IN  IF x.s = y.s THEN MagAdd(big.s, big, small)
           ELSE MagSub(big.s, big, small)

\* x - y on doubles
DSub(x, y) == DAdd(x, DNeg(y))

\* Math.abs
DAbs(x) == [x EXCEPT !.s = 1]

\* x < y on doubles (false when either is NaN)
DLess(x, y) ==
  IF x.k = "nan" \/ y.k = "nan" THEN FALSE
  ELSE IF x.k = "inf" THEN x.s < 0 /\ ~(y.k = "inf" /\ y.s < 0)
  ELSE IF y.k = "inf" THEN y.s > 0
  ELSE IF DIsZero(x) /\ DIsZero(y) THEN FALSE
  ELSE IF DIsZero(x) THEN y.s > 0
  ELSE IF DIsZero(y) THEN x.s < 0
  ELSE IF x.s # y.s THEN x.s < y.s
  ELSE IF x.s > 0 THEN MagLess(x, y) ELSE MagLess(y, x)

(***************************************************************************)
(* Text.  A string is the sequence of its characters.                      *)
(***************************************************************************)
Digits == <<"0", "1", "2", "3", "4", "5", "6", "7", "8", "9">>
IsDigit(c) == \E i \in 1..10 : Digits[i] = c
DigitVal(c) == (CHOOSE i \in 1..10 : Digits[i] = c) - 1
IsSpace(c) == c \in {" ", "\t", "\n", "\r"}

\* length of the run of digits (of white space) of str that starts at p
RECURSIVE DigitRun(_, _)
DigitRun(str, p) ==
  IF p <= Len(str) /\ IsDigit(str[p]) THEN 1 + DigitRun(str, p + 1) ELSE 0
RECURSIVE SpaceRun(_, _)
SpaceRun(str, p) ==
  IF p <= Len(str) /\ IsSpace(str[p]) THEN 1 + SpaceRun(str, p + 1) ELSE 0

RECURSIVE Decimal(_, _, _, _)
Decimal(str, p, n, acc) ==
  IF n = 0 THEN acc ELSE Decimal(str, p + 1, n - 1, 10 * acc + DigitVal(str[p]))

\* parseInt(str): leading white space, an optional sign, then the longest
\* run of decimal digits; NaN when there is no digit
parseInt(str) ==
  LET p0   == 1 + SpaceRun(str, 1)
      neg  == p0 <= Len(str) /\ str[p0] = "-"
      p1   == IF p0 <= Len(str) /\ str[p0] \in {"-", "+"} THEN p0 + 1 ELSE p0
      n    == DigitRun(str, p1)
      v    == Decimal(str, p1, n, 0)
  IN  IF n = 0 THEN NaN ELSE Num(IF neg THEN 0 - v ELSE v)

\* String.prototype.trim() leaves the empty string
TrimIsEmpty(str) == SpaceRun(str, 1) = Len(str)

\* x || 0 on a number: NaN and 0 are falsy
OrZero(x) == IF x.nan \/ x.v = 0 THEN Num(0) ELSE x

\* the pattern with \d{1,5} for \d{3,5}
MatchAtShortNumbers(str, p) ==
  LET r1 == DigitRun(str, p)
      q  == p + r1 + SpaceRun(str, p + r1)
      isX  == q <= Len(str) /\ str[q] \in {"x", "X"}
      isBy == q + 1 <= Len(str) /\ str[q] \in {"b", "B"} /\ str[q + 1] \in {"y", "Y"}
      a  == IF isX THEN q + 1 ELSE q + 2
      b  == a + SpaceRun(str, a)
      r2 == DigitRun(str, b)
      n2 == IF r2 > 5 THEN 5 ELSE r2
  IN  IF r1 >= 1 /\ r1 <= 5 /\ (isX \/ isBy) /\ r2 >= 1
      THEN [found |-> TRUE,
            width |-> parseInt(SubSeq(str, p, p + r1 - 1)),
            height |-> parseInt(SubSeq(str, b, b + n2 - 1))]
      ELSE [found |-> FALSE, width |-> NaN, height |-> NaN]

\* the pattern without its i flag
MatchAtCaseSensitive(str, p) ==
  LET r1 == DigitRun(str, p)
      q  == p + r1 + SpaceRun(str, p + r1)
      isX  == q <= Len(str) /\ str[q] = "x"
      isBy == q + 1 <= Len(str) /\ str[q] = "b" /\ str[q + 1] = "y"
      a  == IF isX THEN q + 1 ELSE q + 2
      b  == a + SpaceRun(str, a)
      r2 == DigitRun(str, b)
      n2 == IF r2 > 5 THEN 5 ELSE r2
  IN  IF r1 >= 3 /\ r1 <= 5 /\ (isX \/ isBy) /\ r2 >= 3
      THEN [found |-> TRUE,
            width |-> parseInt(SubSeq(str, p, p + r1 - 1)),
            height |-> parseInt(SubSeq(str, b, b + n2 - 1))]
      ELSE [found |-> FALSE, width |-> NaN, height |-> NaN]

\* a match of /(\d{3,5})\s*(?:x|by)\s*(\d{3,5})/i that starts at p: the run
\* of digits from p must end within 3..5 characters, since what follows the
\* first group is no digit; the second group takes up to 5 digits
MatchAt(str, p) ==
  LET r1 == DigitRun(str, p)
      q  == p + r1 + SpaceRun(str, p + r1)
      isX  == q <= Len(str) /\ str[q] \in {"x", "X"}
      isBy == q + 1 <= Len(str) /\ str[q] \in {"b", "B"} /\ str[q + 1] \in {"y", "Y"}
      a  == IF isX THEN q + 1 ELSE q + 2
      b  == a + SpaceRun(str, a)
      r2 == DigitRun(str, b)
      n2 == IF r2 > 5 THEN 5 ELSE r2
  IN  IF r1 >= 3 /\ r1 <= 5 /\ (isX \/ isBy) /\ r2 >= 3
      THEN [found |-> TRUE,
            width |-> parseInt(SubSeq(str, p, p + r1 - 1)),
            height |-> parseInt(SubSeq(str, b, b + n2 - 1))]
      ELSE [found |-> FALSE, width |-> NaN, height |-> NaN]

RECURSIVE FirstMatch(_, _)
FirstMatch(str, p) ==
  IF p > Len(str) THEN [found |-> FALSE, width |-> NaN, height |-> NaN]
  ELSE IF MatchAt(str, p).found THEN MatchAt(str, p)
  ELSE FirstMatch(str, p + 1)

\* services/geminiService.ts: the first match, found = FALSE for null
extractDimensionsFromPrompt(prompt) == FirstMatch(prompt, 1)

\* the letters, for the patterns that carry the i flag
UpperCase ==
  <<"A", "B", "C", "D", "E", "F", "G", "H", "I", "J", "K", "L", "M",
    "N", "O", "P", "Q", "R", "S", "T", "U", "V", "W", "X", "Y", "Z">>
LowerCase ==
  <<"a", "b", "c", "d", "e", "f", "g", "h", "i", "j", "k", "l", "m",
    "n", "o", "p", "q", "r", "s", "t", "u", "v", "w", "x", "y", "z">>
LowerOf ==
  [c \in {UpperCase[i] : i \in 1..26} |->
     LowerCase[CHOOSE i \in 1..26 : UpperCase[i] = c]]
toLowerCase(c) == IF c \in DOMAIN LowerOf THEN LowerOf[c] ELSE c

\* word is at position p of str, letter case aside (exactly)
WordAt(str, p, word) ==
  /\ p >= 1 /\ p + Len(word) - 1 <= Len(str)
  /\ \A i \in 1..Len(word) : toLowerCase(str[p + i - 1]) = toLowerCase(word[i])
IncludesAt(str, p, word) ==
  /\ p >= 1 /\ p + Len(word) - 1 <= Len(str)
  /\ \A i \in 1..Len(word) : str[p + i - 1] = word[i]
includes(str, word) == \E p \in 1..Len(str) : IncludesAt(str, p, word)

\* F of the value v, v computed once
Of(v, F(_)) == CHOOSE r \in {F(x) : x \in {v}} : TRUE

\* String.prototype.trim()
RECURSIVE SpaceRunBack(_, _)
SpaceRunBack(str, p) ==
  IF p >= 1 /\ IsSpace(str[p]) THEN 1 + SpaceRunBack(str, p - 1) ELSE 0
Trimmed(s) ==
  IF TrimIsEmpty(s) THEN <<>>
  ELSE SubSeq(s, 1 + SpaceRun(s, 1), Len(s) - SpaceRunBack(s, Len(s)))
trim(str) == Of(str, LAMBDA s : Trimmed(s))

EnhancedPromptLabel ==
  <<"E", "n", "h", "a", "n", "c", "e", "d", " ", "P", "r", "o", "m",
    "p", "t">>
StyleLabel == <<"S", "t", "y", "l", "e">>
OptionsLabel == <<"O", "p", "t", "i", "o", "n", "s">>
Rule == <<"-", "-", "-">>

NoGroup == [found |-> FALSE, group |-> <<>>]
Group(str, from, to) == [found |-> TRUE, group |-> SubSeq(str, from, to)]

\* the longest match of \*\*? at p: 0 when there is no asterisk
StarsAt(str, p) ==
  IF p >= 1 /\ p <= Len(str) /\ str[p] = "*"
  THEN (IF p + 1 <= Len(str) /\ str[p + 1] = "*" THEN 2 ELSE 1)
  ELSE 0

\* the look-ahead without its Style and Options labels
LookAheadRuleOnly(str, q) ==
  /\ q <= Len(str) /\ str[q] = "\n"
  /\ \E k \in 0..SpaceRun(str, q + 1) :
       \/ q + k = Len(str)
       \/ WordAt(str, q + 1 + k, Rule)

\* (?=\n\s*(\*\*?Style|\*\*?Options|---|$)) at q; without the m flag $ is
\* the end of the text
LookAhead(str, q) ==
  /\ q <= Len(str) /\ str[q] = "\n"
  /\ \E k \in 0..SpaceRun(str, q + 1) :
       \/ q + k = Len(str)
       \/ WordAt(str, q + 1 + k, Rule)
       \/ \E n \in 1..StarsAt(str, q + 1 + k) :
            \/ WordAt(str, q + 1 + k + n, StyleLabel)
            \/ WordAt(str, q + 1 + k + n, OptionsLabel)

\* ([\s\S]+?) from c on, the shortest first: the last position of the group,
\* 0 when the look-ahead holds nowhere behind it
RECURSIVE Capture(_, _)
Capture(str, e) ==
  IF e > Len(str) THEN 0
  ELSE IF LookAhead(str, e + 1) THEN e ELSE Capture(str, e + 1)

\* The ways to match \*\*?Enhanced Prompt:?\*\*?\s* from p, in the order the
\* pattern tries them: each quantifier greedy, the later one given up first.
\* Each way is the position where the group then starts.
Spaces(str, d) ==
  [i \in 1..(SpaceRun(str, d) + 1) |-> d + SpaceRun(str, d) + 1 - i]
Closing(str, b) ==
  IF StarsAt(str, b) = 2 THEN Spaces(str, b + 2) \o Spaces(str, b + 1)
  ELSE IF StarsAt(str, b) = 1 THEN Spaces(str, b + 1)
  ELSE <<>>
Colon(str, a) ==
  IF a <= Len(str) /\ str[a] = ":" THEN Closing(str, a + 1) \o Closing(str, a)
  ELSE Closing(str, a)
Label(str, a) ==
  IF WordAt(str, a, EnhancedPromptLabel)
  THEN Colon(str, a + Len(EnhancedPromptLabel)) ELSE <<>>

EnhancedStarts(str, p) ==
  IF StarsAt(str, p) = 2 THEN Label(str, p + 2) \o Label(str, p + 1)
  ELSE IF StarsAt(str, p) = 1 THEN Label(str, p + 1)
  ELSE <<>>

\* the first way whose group can end before a look-ahead: 0 when none can
RECURSIVE FirstWay(_, _, _)
FirstWay(str, starts, i) ==
  IF i > Len(starts) THEN 0
  ELSE IF Capture(str, starts[i]) # 0 THEN starts[i]
  ELSE FirstWay(str, starts, i + 1)

\* /\*\*?Enhanced Prompt:?\*\*?\s*([\s\S]+?)(?=...)/i tried at p: where the
\* group starts, 0 when the pattern does not match at p
EnhancedMatchAt(str, p) ==
  Of(EnhancedStarts(str, p), LAMBDA starts : FirstWay(str, starts, 1))

\* String.prototype.match: the leftmost match, found |-> FALSE for null
RECURSIVE EnhancedMatch(_, _)
EnhancedMatch(str, p) ==
  IF p > Len(str) THEN NoGroup
  ELSE Of(EnhancedMatchAt(str, p), LAMBDA c :
         IF c # 0 THEN Group(str, c, Capture(str, c))
         ELSE EnhancedMatch(str, p + 1))

\* the first position from p on where the label is, 0 when it is nowhere
RECURSIVE LabelFrom(_, _)
LabelFrom(str, p) ==
  IF p + Len(EnhancedPromptLabel) - 1 > Len(str) THEN 0
  ELSE IF WordAt(str, p, EnhancedPromptLabel) THEN p ELSE LabelFrom(str, p + 1)

\* text.split(/Enhanced Prompt:?/i)[1]: what lies between the first and the
\* second label, found |-> FALSE for undefined
AfterLabel(str, p1) ==
  Of(IF p1 + Len(EnhancedPromptLabel) <= Len(str)
        /\ str[p1 + Len(EnhancedPromptLabel)] = ":"
     THEN p1 + Len(EnhancedPromptLabel) + 1
     ELSE p1 + Len(EnhancedPromptLabel), LAMBDA b :
    Of(LabelFrom(str, b), LAMBDA p2 :
      Group(str, b, IF p2 = 0 THEN Len(str) ELSE p2 - 1)))
simpleMatch(str) ==
  Of(LabelFrom(str, 1), LAMBDA p1 :
    IF p1 = 0 THEN NoGroup ELSE AfterLabel(str, p1))

\* the extraction every call site repeats, from the value the site starts with
Otherwise(str, initial) ==
  Of(simpleMatch(str), LAMBDA simple :
    IF simple.found /\ simple.group # <<>> THEN trim(simple.group)
    ELSE initial)
Extract(str, initial) ==
  Of(EnhancedMatch(str, 1), LAMBDA match :
    IF match.found /\ match.group # <<>> THEN trim(match.group)
    ELSE Otherwise(str, initial))

\* let extracted = "" (the chat buttons); let enhanced = response (Enhance)
extractedPrompt(str) == Extract(str, <<>>)
enhancedPrompt(response) == Extract(response, response)

\* the character U+2022
Bullet == "(bullet)"

StyleSuggestionsLabel ==
  <<"S", "t", "y", "l", "e", " ", "S", "u", "g", "g", "e", "s", "t",
    "i", "o", "n", "s">>

\* The ways to match (?:\*\*?Style Suggestions:?\*\*?) from p, in the order
\* the pattern tries them; each way is the position where the group starts.
StyleClosing(str, b) ==
  IF StarsAt(str, b) = 2 THEN <<b + 2, b + 1>>
  ELSE IF StarsAt(str, b) = 1 THEN <<b + 1>>
  ELSE <<>>
StyleColon(str, a) ==
  IF a <= Len(str) /\ str[a] = ":"
  THEN StyleClosing(str, a + 1) \o StyleClosing(str, a)
  ELSE StyleClosing(str, a)
StyleLabelAt(str, a) ==
  IF WordAt(str, a, StyleSuggestionsLabel)
  THEN StyleColon(str, a + Len(StyleSuggestionsLabel)) ELSE <<>>
StyleStarts(str, p) ==
  IF StarsAt(str, p) = 2 THEN StyleLabelAt(str, p + 2) \o StyleLabelAt(str, p + 1)
  ELSE IF StarsAt(str, p) = 1 THEN StyleLabelAt(str, p + 1)
  ELSE <<>>

\* ([\s\S]*?)(?=$|---) from c: the position behind the group, the first one
\* where the text ends or '---' is
RECURSIVE StyleEnd(_, _)
StyleEnd(str, q) ==
  IF q > Len(str) \/ WordAt(str, q, Rule) THEN q ELSE StyleEnd(str, q + 1)

\* text.match(/(?:\*\*?Style Suggestions:?\*\*?)([\s\S]*?)(?=$|---)/i): the
\* group can be empty and the text does end, so the first way matches
RECURSIVE StyleMatch(_, _)
StyleMatch(str, p) ==
  IF p > Len(str) THEN NoGroup
  ELSE Of(StyleStarts(str, p), LAMBDA starts :
         IF starts # <<>>
         THEN Group(str, starts[1], StyleEnd(str, starts[1]) - 1)
         ELSE StyleMatch(str, p + 1))

\* split('\n') from p on
RECURSIVE LineEnd(_, _)
LineEnd(str, p) ==
  IF p > Len(str) \/ str[p] = "\n" THEN p ELSE LineEnd(str, p + 1)
RECURSIVE Lines(_, _)
Lines(str, p) ==
  Of(LineEnd(str, p), LAMBDA e :
    IF e > Len(str) THEN <<SubSeq(str, p, Len(str))>>
    ELSE <<SubSeq(str, p, e - 1)>> \o Lines(str, e + 1))

\* [\*\-•\d\.]
IsMarker(c) == c \in {"*", "-", Bullet, "."} \/ IsDigit(c)
RECURSIVE MarkerRun(_, _)
MarkerRun(str, p) ==
  IF p <= Len(str) /\ IsMarker(str[p]) THEN 1 + MarkerRun(str, p + 1) ELSE 0

\* line.replace(/^[\*\-•\d\.]+\s*/, '')
StripMarker(line) ==
  SubSeq(line, 1 + MarkerRun(line, 1) + SpaceRun(line, 1 + MarkerRun(line, 1)),
         Len(line))

Map(list, F(_)) == [i \in 1..Len(list) |-> F(list[i])]

\* ChatInterface.extractStyles
StylesOf(styleMatch) ==
  IF ~styleMatch.found \/ styleMatch.group = <<>> THEN <<>>
  ELSE Map(SelectSeq(Map(Lines(styleMatch.group, 1), LAMBDA line : trim(line)),
                     LAMBDA line : line # <<>> /\ IsMarker(line[1])),
           LAMBDA line : StripMarker(line))
extractStyles(str) == Of(StyleMatch(str, 1), LAMBDA styleMatch : StylesOf(styleMatch))

(***************************************************************************)
(* services/geminiService.ts: getClosestAspectRatio                        *)
(***************************************************************************)
SQUARE == "1:1"
PORTRAIT_3_4 == "3:4"
LANDSCAPE_4_3 == "4:3"
PORTRAIT_9_16 == "9:16"
LANDSCAPE_16_9 == "16:9"
AspectRatio == {SQUARE, PORTRAIT_3_4, LANDSCAPE_4_3, PORTRAIT_9_16, LANDSCAPE_16_9}

\* the candidate table of getClosestAspectRatio, in declaration order;
\* n / d is the literal the source divides to obtain r
ratios ==
  << [n |-> 1,  d |-> 1,  r |-> DDiv(Num(1), Num(1)),  val |-> SQUARE],
     [n |-> 3,  d |-> 4,  r |-> DDiv(Num(3), Num(4)),  val |-> PORTRAIT_3_4],
     [n |-> 4,  d |-> 3,  r |-> DDiv(Num(4), Num(3)),  val |-> LANDSCAPE_4_3],
     [n |-> 9,  d |-> 16, r |-> DDiv(Num(9), Num(16)), val |-> PORTRAIT_9_16],
     [n |-> 16, d |-> 9,  r |-> DDiv(Num(16), Num(9)), val |-> LANDSCAPE_16_9] >>

\* the reducer: curr replaces prev only when strictly closer
Closer(curr, prev, ratio) ==
  DLess(DAbs(DSub(curr.r, ratio)), DAbs(DSub(prev.r, ratio)))

\* Array.prototype.reduce without an initial value, from index i on
RECURSIVE Reduce(_, _, _)
Reduce(prev, i, ratio) ==
  IF i > Len(ratios) THEN prev
  ELSE Reduce(IF Closer(ratios[i], prev, ratio) THEN ratios[i] ELSE prev,
              i + 1, ratio)

\* the quotient taken the wrong way round
getClosestAspectRatioSwapped(width, height) ==
  Reduce(ratios[1], 2, DDiv(height, width)).val

getClosestAspectRatio(width, height) ==
  Reduce(ratios[1], 2, DDiv(width, height)).val

(***************************************************************************)
(* services/storageService.ts.  localStorage maps each key to the string   *)
(* stored under it: none, the JSON text of a list, or a text JSON.parse    *)
(* rejects.  A stored item is the pair of its id (the reading of           *)
(* Date.now() it was built from; toString is injective) and its base64     *)
(* payload; type, prompt, metadata and timestamp are carried along         *)
(* unchanged and left out.  access tells whether window.localStorage can   *)
(* be reached at all (reading the property throws SecurityError when the   *)
(* browser blocks site data).                                              *)
(***************************************************************************)
STORAGE_KEY == "lumina_history_v1"
SAVED_PROMPTS_KEY == "lumina_saved_prompts_v1"
MAX_ITEMS == 30
Keys == {STORAGE_KEY, SAVED_PROMPTS_KEY}

NoValue == [k |-> "null", v |-> <<>>]
Unparseable == [k |-> "text", v |-> <<>>]
JSONstringify(list) == [k |-> "json", v |-> list]
\* JSON.parse: the list, or a SyntaxError
JSONparse(str) == IF str.k = "json" THEN [threw |-> FALSE, v |-> str.v]
                  ELSE [threw |-> TRUE, v |-> <<>>]

Min(a, b) == IF a < b THEN a ELSE b
\* a slice that keeps one element too many
sliceOneMore(list, n) == SubSeq(list, 1, Min(Len(list), n + 1))
slice(list, n) == SubSeq(list, 1, Min(Len(list), n))

\* one call of localStorage.setItem: fail is the quota refusing this write
setItem(ls, access, key, val, fail) ==
  IF access /\ ~fail
  THEN [ls |-> [ls EXCEPT ![key] = val], threw |-> FALSE]
  ELSE [ls |-> ls, threw |-> TRUE]

\* the read both getHistory and getSavedPrompts perform under their key
getList(ls, access, key) ==
  IF ~access THEN <<>>
  ELSE IF ls[key].k = "null" THEN <<>>
  ELSE IF JSONparse(ls[key]).threw THEN <<>>
  ELSE JSONparse(ls[key]).v

getHistory(ls, access) == getList(ls, access, STORAGE_KEY)
getSavedPrompts(ls, access) == getList(ls, access, SAVED_PROMPTS_KEY)

HistoryItem(t, base64) == [id |-> t, base64 |-> base64]

\* The result of a storage operation: the store it leaves, the writes it
\* attempted (value and whether the write threw) and whether an exception
\* left the operation.
Outcome(ls, writes, threw) == [ls |-> ls, writes |-> writes, threw |-> threw]
Attempt(key, val, w) == [key |-> key, val |-> val, threw |-> w.threw]

\* a catch branch that retries whatever the size of the stored collection
addFallbackAnySize(ls, access, base64, t2, f, w1) ==
  LET current == getHistory(ls, access)
      half    == slice(current, Len(current) \div 2)
      wh      == setItem(ls, access, STORAGE_KEY, JSONstringify(half), f[2])
      retryHistory == <<HistoryItem(t2, base64)>> \o half
      wr      == setItem(wh.ls, access, STORAGE_KEY, JSONstringify(retryHistory), f[3])
  IN  IF wh.threw
      THEN Outcome(ls, <<w1, Attempt(STORAGE_KEY, half, wh)>>, FALSE)
      ELSE Outcome(wr.ls, <<w1, Attempt(STORAGE_KEY, half, wh),
                            Attempt(STORAGE_KEY, retryHistory, wr)>>, FALSE)

\* a catch branch that lets the failure of its last write reach the caller
addFallbackRethrow(ls, access, base64, t2, f, w1) ==
  LET current == getHistory(ls, access)
      half    == slice(current, Len(current) \div 2)
      wh      == setItem(ls, access, STORAGE_KEY, JSONstringify(half), f[2])
      retryHistory == <<HistoryItem(t2, base64)>> \o half
      wr      == setItem(wh.ls, access, STORAGE_KEY, JSONstringify(retryHistory), f[3])
  IN  IF Len(current) > 5
      THEN IF wh.threw
           THEN Outcome(ls, <<w1, Attempt(STORAGE_KEY, half, wh)>>, TRUE)
           ELSE Outcome(wr.ls, <<w1, Attempt(STORAGE_KEY, half, wh),
                                 Attempt(STORAGE_KEY, retryHistory, wr)>>, wr.threw)
      ELSE Outcome(ls, <<w1>>, TRUE)

\* the catch branch of addToHistory; t2 is its reading of Date.now()
addFallback(ls, access, base64, t2, f, w1) ==
  LET current == getHistory(ls, access)
      half    == slice(current, Len(current) \div 2)
      wh      == setItem(ls, access, STORAGE_KEY, JSONstringify(half), f[2])
      retryHistory == <<HistoryItem(t2, base64)>> \o half
      wr      == setItem(wh.ls, access, STORAGE_KEY, JSONstringify(retryHistory), f[3])
  IN  IF Len(current) > 5
      THEN IF wh.threw
           THEN Outcome(ls, <<w1, Attempt(STORAGE_KEY, half, wh)>>, FALSE)
           ELSE Outcome(wr.ls, <<w1, Attempt(STORAGE_KEY, half, wh),
                                 Attempt(STORAGE_KEY, retryHistory, wr)>>, FALSE)
      ELSE Outcome(ls, <<w1>>, FALSE)

\* an addToHistory that appends the new item instead of prepending it
addToHistoryAppend(ls, access, base64, t, t2, f) ==
  LET newItem        == HistoryItem(t, base64)
      currentHistory == getHistory(ls, access)
      updatedHistory == slice(currentHistory \o <<newItem>>, MAX_ITEMS)
      w  == setItem(ls, access, STORAGE_KEY, JSONstringify(updatedHistory), f[1])
      w1 == Attempt(STORAGE_KEY, updatedHistory, w)
  IN  IF ~w.threw THEN Outcome(w.ls, <<w1>>, FALSE)
      ELSE addFallback(ls, access, base64, t2, f, w1)

\* addToHistory(type, base64, prompt, metadata); t and t2 are the readings
\* of Date.now() in the try and in the catch branch, f[1..3] say which of
\* the three writes the quota refuses
addToHistory(ls, access, base64, t, t2, f) ==
  LET newItem        == HistoryItem(t, base64)
      currentHistory == getHistory(ls, access)
      updatedHistory == slice(<<newItem>> \o currentHistory, MAX_ITEMS)
      w  == setItem(ls, access, STORAGE_KEY, JSONstringify(updatedHistory), f[1])
      w1 == Attempt(STORAGE_KEY, updatedHistory, w)
  IN  IF ~w.threw THEN Outcome(w.ls, <<w1>>, FALSE)
      ELSE addFallback(ls, access, base64, t2, f, w1)

deleteHistoryItem(ls, access, id, fail) ==
  LET history == SelectSeq(getHistory(ls, access), LAMBDA item : item.id # id)
      w == setItem(ls, access, STORAGE_KEY, JSONstringify(history), fail)
  IN  Outcome(w.ls, <<Attempt(STORAGE_KEY, history, w)>>, FALSE)

\* a clear by localStorage.clear(), which removes every key
clearAllHistoryEveryKey(ls, access) ==
  IF access THEN Outcome([key \in Keys |-> NoValue], <<>>, FALSE)
  ELSE Outcome(ls, <<>>, TRUE)

\* localStorage.removeItem outside any try block
clearAllHistory(ls, access) ==
  IF access THEN Outcome([ls EXCEPT ![STORAGE_KEY] = NoValue], <<>>, FALSE)
  ELSE Outcome(ls, <<>>, TRUE)

SavedPrompt(t, text) == [id |-> t, text |-> text]

\* a savePrompt that writes its prompt over what is stored
savePromptOver(ls, access, text, t, fail) ==
  LET newPrompt == SavedPrompt(t, text)
      updated   == <<newPrompt>>
      w == setItem(ls, access, SAVED_PROMPTS_KEY, JSONstringify(updated), fail)
  IN  Outcome(w.ls, <<Attempt(SAVED_PROMPTS_KEY, updated, w)>>, FALSE)

\* a savePrompt that keeps MAX_ITEMS prompts as addToHistory keeps items
savePromptCapped(ls, access, text, t, fail) ==
  LET newPrompt == SavedPrompt(t, text)
      current   == getSavedPrompts(ls, access)
      updated   == slice(<<newPrompt>> \o current, MAX_ITEMS)
      w == setItem(ls, access, SAVED_PROMPTS_KEY, JSONstringify(updated), fail)
  IN  Outcome(w.ls, <<Attempt(SAVED_PROMPTS_KEY, updated, w)>>, FALSE)

savePrompt(ls, access, text, t, fail) ==
  LET newPrompt == SavedPrompt(t, text)
      current   == getSavedPrompts(ls, access)
      updated   == <<newPrompt>> \o current
      w == setItem(ls, access, SAVED_PROMPTS_KEY, JSONstringify(updated), fail)
  IN  Outcome(w.ls, <<Attempt(SAVED_PROMPTS_KEY, updated, w)>>, FALSE)

deleteSavedPrompt(ls, access, id, fail) ==
  LET current == SelectSeq(getSavedPrompts(ls, access), LAMBDA q : q.id # id)
      w == setItem(ls, access, SAVED_PROMPTS_KEY, JSONstringify(current), fail)
  IN  Outcome(w.ls, <<Attempt(SAVED_PROMPTS_KEY, current, w)>>, FALSE)


(***************************************************************************)
(* State                                                                   *)
(***************************************************************************)
VARIABLES
  rw, rh,      \* the arguments of a call of getClosestAspectRatio
  rres,        \* its result, "none" before the call
  ls,          \* localStorage: key -> stored string
  lsAccess,    \* whether window.localStorage can be reached
  now,         \* the last reading of Date.now()
  nextImg,     \* number of image payloads produced so far
  events,      \* number of irregular steps taken so far
  last,        \* the last storage operation: its arguments and outcome
  mode,        \* App.currentMode: the one component that is mounted
  inst,        \* which mounting of a component this is
  ui,          \* the state (useState cells) of the mounted component
  reqs,        \* upstream calls awaited: who made them and with what
  nreq,        \* number of upstream calls made so far
  inputs,      \* number of user inputs so far
  call,        \* the arguments of the last call of getClosestAspectRatio
  done,        \* the upstream call settled last and how it settled
  targ,        \* the argument of a call of a text function
  tres         \* its result, once it is called

ratioVars == <<rw, rh, rres>>
storeVars == <<ls, lsAccess, now, nextImg, events, last>>
uiVars == <<mode, inst, ui, reqs, nreq, inputs, call, done>>
textVars == <<targ, tres>>
vars == <<rw, rh, rres, ls, lsAccess, now, nextImg, events, last,
          mode, inst, ui, reqs, nreq, inputs, call, done, targ, tres>>

(***************************************************************************)
(* The components.  App renders the component of currentMode and no other, *)
(* so one record holds the state of whichever is mounted; a change of mode *)
(* unmounts it and mounts the next one with the useState defaults.  The    *)
(* field names are the Generator's: the FreeGenerator's width, height and  *)
(* resultImage and the Editor's resultImage and isProcessing are           *)
(* customWidth, customHeight, generatedImage and isGenerating here, and    *)
(* the ChatInterface's input and isLoading are prompt and isGenerating.    *)
(* Of a chat message only its kind is kept.  items is the list the History *)
(* view displays.                                                          *)
(***************************************************************************)
ASSISTANT == "ASSISTANT"
GENERATOR == "GENERATOR"
FREE_GEN == "FREE_GEN"
EDITOR == "EDITOR"
LOGO == "LOGO"
HISTORY == "HISTORY"
AppMode == {ASSISTANT, GENERATOR, FREE_GEN, EDITOR, LOGO, HISTORY}

K1 == "1K"
K2 == "2K"
K4 == "4K"
ImageSize == {K1, K2, K4}

null == "null"
undefined == "undefined"

InitialUi ==
  [prompt |-> <<>>, brandName |-> <<>>, additionalDetails |-> <<>>,
   aspectRatio |-> SQUARE, size |-> K1, usePro |-> FALSE,
   useCustomSize |-> FALSE, customWidth |-> Num(1024), customHeight |-> Num(1024),
   selectedImage |-> null, isGenerating |-> FALSE,
   generatedImage |-> 0, error |-> null,
   messages |-> <<"greeting">>, items |-> <<>>, isEnhancing |-> FALSE]

NoCall == [made |-> FALSE, width |-> Num(1024), height |-> Num(1024)]
NoDone == [id |-> 0, ok |-> FALSE, mounted |-> FALSE, quiet |-> FALSE, img |-> 0,
           kind |-> "none"]

NoResult == [called |-> FALSE]
Result(value) == [called |-> TRUE, value |-> value]
TextIdle == targ = <<>> /\ tres = NoResult

UiIdle ==
  /\ mode = ASSISTANT
  /\ inst = 0
  /\ ui = InitialUi
  /\ reqs = {}
  /\ nreq = 0
  /\ inputs = 0
  /\ call = NoCall
  /\ done = NoDone

(***************************************************************************)
(* getClosestAspectRatio as a function of two positive dimensions          *)
(***************************************************************************)
MaxDim == 33
CommonDims == {512, 600, 768, 800, 1024, 1080, 1280, 1920}
Dims == (1..MaxDim) \cup CommonDims

NoOp == [op |-> "none", img |-> 0, id |-> 0, writes |-> <<>>, threw |-> FALSE]
StoreIdle ==
  /\ ls = [key \in Keys |-> NoValue]
  /\ lsAccess = TRUE
  /\ now = 0
  /\ nextImg = 0
  /\ events = 0
  /\ last = NoOp
  /\ UiIdle
  /\ TextIdle

InitRatio ==
  /\ rw \in Dims
  /\ rh \in Dims
  /\ rres = "none"
  /\ StoreIdle

Resolve ==
  /\ rres = "none"
  /\ rres' = getClosestAspectRatio(Num(rw), Num(rh))
  /\ UNCHANGED <<rw, rh>>
  /\ UNCHANGED <<storeVars, uiVars, textVars>>

NextArgs ==
  /\ rres # "none"
  /\ rw' \in Dims
  /\ rh' \in Dims
  /\ rres' = "none"
  /\ UNCHANGED <<storeVars, uiVars, textVars>>

NextRatio == Resolve \/ NextArgs

SpecRatio == InitRatio /\ [][NextRatio]_vars

\* exact comparison of |a.n/a.d - w/h| with |b.n/b.d - w/h|
DistLess(a, b, w, h) ==
  AbsInt(a.n * h - a.d * w) * b.d < AbsInt(b.n * h - b.d * w) * a.d
DistEq(a, b, w, h) ==
  AbsInt(a.n * h - a.d * w) * b.d = AbsInt(b.n * h - b.d * w) * a.d
Entry(val) == CHOOSE i \in 1..Len(ratios) : ratios[i].val = val
IsNearest(i, w, h) == \A j \in 1..Len(ratios) : ~DistLess(ratios[j], ratios[i], w, h)

\* C8: for positive width and height the result is a supported ratio whose
\* defining ratio is at the smallest absolute distance from width / height;
\* 1024x1024 gives 1:1, 1920x1080 gives 16:9 and 768x1024 gives 3:4.
C8_Nearest ==
  rres # "none" =>
    /\ rres \in AspectRatio
    /\ IsNearest(Entry(rres), rw, rh)
    /\ (rw = 1024 /\ rh = 1024 => rres = SQUARE)
    /\ (rw = 1920 /\ rh = 1080 => rres = LANDSCAPE_16_9)
    /\ (rw = 768 /\ rh = 1024 => rres = PORTRAIT_3_4)

C8_Witness == rw = 1920 /\ rh = 1080 /\ rres = LANDSCAPE_16_9

\* C9: when width / height is equidistant from two supported ratios the
\* result is the one declared first (7x6 and 7x8 give 1:1, 21x32 gives 3:4,
\* 14x9 gives 4:3).
C9_FirstDeclaredWins ==
  rres # "none" =>
    rres = ratios[CHOOSE i \in 1..Len(ratios) :
                    /\ IsNearest(i, rw, rh)
                    /\ \A j \in 1..(i - 1) : ~IsNearest(j, rw, rh)].val

(***************************************************************************)
(* The store under its operations.  A step is regular when it is an        *)
(* addToHistory whose reading of Date.now() is later than the previous one *)
(* and whose first write succeeds; every other step (a reading in the same *)
(* millisecond, a write the quota refuses, a deletion, a clear, an         *)
(* operation on the saved prompts) is irregular.                           *)
(***************************************************************************)
NoFault == <<FALSE, FALSE, FALSE>>
Faults == {NoFault, <<TRUE, TRUE, FALSE>>, <<TRUE, FALSE, TRUE>>, <<TRUE, FALSE, FALSE>>}

Op(op, img, id, o) ==
  [op |-> op, img |-> img, id |-> id, writes |-> o.writes, threw |-> o.threw]

History == getHistory(ls, lsAccess)
Prompts == getSavedPrompts(ls, lsAccess)

\* ids a caller can ask to delete: any stored one and one not stored
Targets(list) == {list[i].id : i \in 1..Len(list)} \cup {now + 1}
\* the same, of the stored ones only the newest and the oldest
EndTargets(list) ==
  (IF list = <<>> THEN {} ELSE {list[1].id, list[Len(list)].id}) \cup {now + 1}

AddStep(maxImg, maxEv, dts, fs) ==
  \E dt \in dts, dt2 \in {0, 1}, f \in fs :
    LET t  == now + dt
        t2 == t + dt2
        o  == addToHistory(ls, lsAccess, nextImg + 1, t, t2, f)
        irregular == dt = 0 \/ f # NoFault
    IN  /\ nextImg < maxImg
        /\ irregular => events < maxEv
        /\ dt2 = 1 => Len(o.writes) = 3
        /\ ls' = o.ls
        /\ now' = t2
        /\ nextImg' = nextImg + 1
        /\ events' = IF irregular THEN events + 1 ELSE events
        /\ last' = Op("add", nextImg + 1, t, o)
        /\ UNCHANGED <<lsAccess, ratioVars, textVars, uiVars>>

DeleteStep(maxEv, ids, fails) ==
  \E id \in ids, fail \in fails :
    LET o == deleteHistoryItem(ls, lsAccess, id, fail)
    IN  /\ events < maxEv
        /\ ls' = o.ls
        /\ events' = events + 1
        /\ last' = Op("delete", 0, id, o)
        /\ UNCHANGED <<lsAccess, now, nextImg, ratioVars, textVars, uiVars>>

ClearStep(maxEv) ==
  LET o == clearAllHistory(ls, lsAccess)
  IN  /\ events < maxEv
      /\ ls' = o.ls
      /\ events' = events + 1
      /\ last' = Op("clear", 0, 0, o)
      /\ UNCHANGED <<lsAccess, now, nextImg, ratioVars, textVars, uiVars>>

(***************************************************************************)
(* Spec: a short run of operations with every irregularity.                *)
(***************************************************************************)
MaxShort == 8
MaxEvents == 2
Texts == {"a cat"}

Init ==
  /\ \/ lsAccess = TRUE /\ ls \in {[key \in Keys |-> NoValue], [key \in Keys |-> Unparseable]}
     \/ lsAccess = FALSE /\ ls = [key \in Keys |-> NoValue]
  /\ now = 0
  /\ nextImg = 0
  /\ events = 0
  /\ last = NoOp
  /\ rw = 1 /\ rh = 1 /\ rres = "none"
  /\ UiIdle
  /\ TextIdle

AddToHistory == AddStep(MaxShort, MaxEvents, {0, 1}, Faults)

DeleteHistoryItem == DeleteStep(MaxEvents, Targets(History), BOOLEAN)

ClearAllHistory == ClearStep(MaxEvents)

SavePrompt ==
  \E dt \in {0, 1}, text \in Texts, fail \in BOOLEAN :
    LET t == now + dt
        o == savePrompt(ls, lsAccess, text, t, fail)
    IN  /\ events < MaxEvents
        /\ ls' = o.ls
        /\ now' = t
        /\ events' = events + 1
        /\ last' = Op("savePrompt", 0, t, o)
        /\ UNCHANGED <<lsAccess, nextImg, ratioVars, textVars, uiVars>>

DeleteSavedPrompt ==
  \E id \in Targets(Prompts), fail \in BOOLEAN :
    LET o == deleteSavedPrompt(ls, lsAccess, id, fail)
    IN  /\ events < MaxEvents
        /\ ls' = o.ls
        /\ events' = events + 1
        /\ last' = Op("deletePrompt", 0, id, o)
        /\ UNCHANGED <<lsAccess, now, nextImg, ratioVars, textVars, uiVars>>

Next ==
  \/ AddToHistory
  \/ DeleteHistoryItem
  \/ ClearAllHistory
  \/ SavePrompt
  \/ DeleteSavedPrompt

Spec == Init /\ [][Next]_vars

(***************************************************************************)
(* SpecFill: the history filled past its capacity by additions that        *)
(* succeed, with deletions and clears in between.                          *)
(***************************************************************************)
MaxImages == 32
MaxFillEvents == 2

InitFill == StoreIdle /\ rw = 1 /\ rh = 1 /\ rres = "none"

FillAdd == AddStep(MaxImages, MaxFillEvents, {1}, {NoFault})

FillDelete == DeleteStep(MaxFillEvents, EndTargets(History), {FALSE})

FillClear == ClearStep(MaxFillEvents)

NextFill == FillAdd \/ FillDelete \/ FillClear

SpecFill == InitFill /\ [][NextFill]_vars

(***************************************************************************)
(* SpecPrompts: the saved prompts filled past the capacity of the history  *)
(* by one click on Save after the other, each in a later millisecond; the  *)
(* irregular steps are the saves whose write the quota refuses.            *)
(***************************************************************************)
MaxPrompts == 32
MaxPromptEvents == 2

InitPrompts == StoreIdle /\ rw = 1 /\ rh = 1 /\ rres = "none"

PromptSave(fail) ==
  \E text \in Texts :
    LET t == now + 1
        o == savePrompt(ls, lsAccess, text, t, fail)
    IN  /\ inputs < MaxPrompts
        /\ fail => events < MaxPromptEvents
        /\ ls' = o.ls
        /\ now' = t
        /\ inputs' = inputs + 1
        /\ events' = IF fail THEN events + 1 ELSE events
        /\ last' = Op("savePrompt", 0, t, o)
        /\ UNCHANGED <<lsAccess, nextImg, ratioVars, textVars,
                       mode, inst, ui, reqs, nreq, call, done>>

PromptSaved ==
  /\ PromptSave(FALSE)

PromptRefused ==
  /\ PromptSave(TRUE)

NextPrompts == PromptSaved \/ PromptRefused

SpecPrompts == InitPrompts /\ [][NextPrompts]_vars

(***************************************************************************)
(* SpecUI: the user at the components.  Each input and each click is a     *)
(* step, and so is the settling of an awaited upstream call, which runs    *)
(* the rest of the handler that awaited it.                                *)
(***************************************************************************)
MaxInputs == 5

ACat == <<"a", " ", "c", "a", "t">>
WideShot == <<"1", "9", "2", "0", " ", "b", "y", " ", "1", "0", "8", "0">>
ZeroWide == <<"0", "0", "0", "x", "5", "1", "2">>
Icon == <<"5", "1", "2", "X", "5", "1", "2">>
Acme == <<"A", "c", "m", "e">>
\* what sendChatMessage resolves with when asked to enhance a prompt: a
\* reply in the format asked for, and the text it returns for an empty
\* response
CatAnime ==
  <<"*", "*", "E", "n", "h", "a", "n", "c", "e", "d", " ", "P", "r",
    "o", "m", "p", "t", ":", "*", "*", " ", "A", " ", "c", "a", "t",
    ".", " ", "\n", "*", "*", "S", "t", "y", "l", "e", " ", "S", "u",
    "g", "g", "e", "s", "t", "i", "o", "n", "s", ":", "*", "*", "\n",
    "*", " ", "A", "n", "i", "m", "e">>
Placeholder ==
  <<"I", " ", "c", "o", "u", "l", "d", "n", "'", "t", " ", "g", "e",
    "n", "e", "r", "a", "t", "e", " ", "a", " ", "t", "e", "x", "t",
    " ", "r", "e", "s", "p", "o", "n", "s", "e", ".">>
Replies == {CatAnime, Placeholder}
\* what handleEnhancePrompt makes of each
Enhanced == [response \in Replies |-> enhancedPrompt(response)]
\* what the user types into a text field
Typed == {ACat, WideShot, ZeroWide, Icon}
\* the value of an <input type="number">: "" while what is typed is no number
TypedNumber == {<<>>, <<"-", "5">>, <<"7", "6", "8">>}

\* the Editor shows its controls once an image is selected
ControlsShown == mode = EDITOR => ui.selectedImage # null

\* the store as earlier sessions can have left it: empty, unreachable, or
\* holding the six items of six additions
SixItems == [i \in 1..6 |-> HistoryItem(7 - i, 7 - i)]

InitUI ==
  /\ \/ /\ lsAccess \in BOOLEAN
        /\ ls = [key \in Keys |-> NoValue]
        /\ now = 0 /\ nextImg = 0
     \/ /\ lsAccess = TRUE
        /\ ls = [key \in Keys |-> IF key = STORAGE_KEY
                                  THEN JSONstringify(SixItems) ELSE NoValue]
        /\ now = 6 /\ nextImg = 6
  /\ events = 0
  /\ last = NoOp
  /\ rw = 1 /\ rh = 1 /\ rres = "none"
  /\ UiIdle
  /\ TextIdle

Input == inputs < MaxInputs /\ inputs' = inputs + 1
Same == UNCHANGED <<ratioVars, textVars, storeVars, reqs, nreq, call, done>>

\* Navigation: setCurrentMode.  The History view loads its items in the
\* effect that runs once it is mounted.
SetMode ==
  \E m \in AppMode \ {mode} :
    /\ Input
    /\ mode' = m
    /\ inst' = inst + 1
    /\ ui' = IF m = HISTORY
             THEN [InitialUi EXCEPT !.items = getHistory(ls, lsAccess)]
             ELSE InitialUi
    /\ Same

\* History.handleDelete, by the Delete button of a displayed item
HistoryHandleDelete ==
  \E i \in 1..Len(ui.items), fail \in BOOLEAN :
    LET id == ui.items[i].id
        o  == deleteHistoryItem(ls, lsAccess, id, fail)
    IN  /\ mode = HISTORY
        /\ Input
        /\ ls' = o.ls
        /\ last' = Op("delete", 0, id, o)
        /\ ui' = [ui EXCEPT !.items = SelectSeq(@, LAMBDA item : item.id # id)]
        /\ UNCHANGED <<lsAccess, now, nextImg, events, mode, inst, reqs, nreq,
                       call, done, ratioVars, textVars>>

\* History.handleClearAll, by the Clear All button, shown while items are
\* displayed; an exception of clearAllHistory leaves the handler before
\* setItems
HistoryHandleClearAll ==
  \E confirm \in BOOLEAN :
    LET o == clearAllHistory(ls, lsAccess)
    IN  /\ mode = HISTORY /\ Len(ui.items) > 0
        /\ Input
        /\ IF confirm
           THEN /\ ls' = o.ls
                /\ last' = Op("clear", 0, 0, o)
                /\ ui' = IF o.threw THEN ui ELSE [ui EXCEPT !.items = <<>>]
           ELSE UNCHANGED <<ls, last, ui>>
        /\ UNCHANGED <<lsAccess, now, nextImg, events, mode, inst, reqs, nreq,
                       call, done, ratioVars, textVars>>

\* ChatInterface: setInput, by the input field or by a saved prompt picked
\* from the panel
SetInput ==
  /\ mode = ASSISTANT
  /\ Input
  /\ ui' = [ui EXCEPT !.prompt = ACat]
  /\ UNCHANGED <<mode, inst>> /\ Same

SetPrompt ==
  \E v \in Typed :
    /\ mode \in {GENERATOR, FREE_GEN, EDITOR} /\ ControlsShown
    /\ Input
    /\ ui' = [ui EXCEPT !.prompt = v]
    /\ UNCHANGED <<mode, inst>> /\ Same

SetBrandName ==
  /\ mode = LOGO
  /\ Input
  /\ ui' = [ui EXCEPT !.brandName = Acme]
  /\ UNCHANGED <<mode, inst>> /\ Same

SetAdditionalDetails ==
  \E v \in Typed :
    /\ mode = LOGO
    /\ Input
    /\ ui' = [ui EXCEPT !.additionalDetails = v]
    /\ UNCHANGED <<mode, inst>> /\ Same

SetUseCustomSize ==
  /\ mode \in {GENERATOR, EDITOR, LOGO} /\ ControlsShown
  /\ Input
  /\ ui' = [ui EXCEPT !.useCustomSize = ~@]
  /\ UNCHANGED <<mode, inst>> /\ Same

\* onChange of a size field: parseInt(e.target.value) || 0 in the Generator
\* and the FreeGenerator, parseInt(e.target.value) in the Editor and the
\* LogoDesigner
FieldValue(v) ==
  IF mode \in {GENERATOR, FREE_GEN} THEN OrZero(parseInt(v)) ELSE parseInt(v)

SizeFieldsShown ==
  /\ mode \in {GENERATOR, FREE_GEN, EDITOR, LOGO} /\ ControlsShown
  /\ mode # FREE_GEN => ui.useCustomSize

SetCustomWidth ==
  \E v \in TypedNumber :
    /\ SizeFieldsShown
    /\ Input
    /\ ui' = [ui EXCEPT !.customWidth = FieldValue(v)]
    /\ UNCHANGED <<mode, inst>> /\ Same

SetCustomHeight ==
  \E v \in TypedNumber :
    /\ SizeFieldsShown
    /\ Input
    /\ ui' = [ui EXCEPT !.customHeight = FieldValue(v)]
    /\ UNCHANGED <<mode, inst>> /\ Same

\* the Flash and Pro buttons of the Generator, the checkbox of the
\* LogoDesigner
SetUsePro ==
  \E v \in BOOLEAN \ {ui.usePro} :
    /\ mode \in {GENERATOR, LOGO}
    /\ Input
    /\ ui' = [ui EXCEPT !.usePro = v]
    /\ UNCHANGED <<mode, inst>> /\ Same

\* the quality buttons, shown for the Pro model without a custom size
SetSize ==
  \E v \in ImageSize \ {ui.size} :
    /\ mode = GENERATOR /\ ui.usePro /\ ~ui.useCustomSize
    /\ Input
    /\ ui' = [ui EXCEPT !.size = v]
    /\ UNCHANGED <<mode, inst>> /\ Same

\* Editor.handleFileSelect, the reading of the file taken as one step
HandleFileSelect ==
  \E read \in BOOLEAN :
    /\ mode = EDITOR /\ ui.selectedImage = null
    /\ Input
    /\ ui' = IF read
             THEN [ui EXCEPT !.selectedImage = "file", !.generatedImage = 0,
                             !.error = null]
             ELSE [ui EXCEPT !.error = "Failed to process image file."]
    /\ UNCHANGED <<mode, inst>> /\ Same

\* Math.max on two numbers, and n > k: NaN makes the one NaN, the other false
MathMax(a, b) ==
  IF a.nan \/ b.nan THEN NaN ELSE IF a.v > b.v THEN a ELSE b
Greater(x, k) == ~x.nan /\ x.v > k

Call(width, height) == [made |-> TRUE, width |-> width, height |-> height]

\* what a handler hands to generateImage or editImage and awaits
Request(aspectRatio, size, usePro) ==
  [id |-> nreq + 1, inst |-> inst, mode |-> mode,
   aspectRatio |-> aspectRatio, size |-> size, usePro |-> usePro,
   quiet |-> TRUE, kind |-> "action"]

Await(request) ==
  /\ Input
  /\ nreq' = nreq + 1
  /\ reqs' = reqs \cup {request}
  /\ UNCHANGED <<mode, inst, done, ratioVars, textVars, storeVars>>

\* Generator.handleGenerate up to its await; the button is disabled while
\* isGenerating or while the prompt is empty
GeneratorHandleGenerate ==
  LET extracted == extractDimensionsFromPrompt(ui.prompt)
      width  == IF ui.useCustomSize THEN ui.customWidth ELSE extracted.width
      height == IF ui.useCustomSize THEN ui.customHeight ELSE extracted.height
      sized  == ui.useCustomSize \/ extracted.found
      maxDim == MathMax(width, height)
      finalAspectRatio ==
        IF sized THEN getClosestAspectRatio(width, height) ELSE ui.aspectRatio
      finalSize ==
        IF ~sized THEN ui.size
        ELSE IF Greater(maxDim, 2048) THEN K4
        ELSE IF Greater(maxDim, 1024) THEN K2
        ELSE IF ui.useCustomSize THEN K1 ELSE ui.size
  IN  /\ mode = GENERATOR
      /\ ~ui.isGenerating /\ ui.prompt # <<>>
      /\ ~TrimIsEmpty(ui.prompt)
      /\ ui' = [ui EXCEPT !.isGenerating = TRUE, !.error = null,
                          !.generatedImage = 0]
      /\ call' = IF sized THEN Call(width, height) ELSE call
      /\ Await(Request(finalAspectRatio, finalSize, ui.usePro))

\* FreeGenerator.handleGenerate up to its await
FreeHandleGenerate ==
  /\ mode = FREE_GEN
  /\ ~ui.isGenerating /\ ui.prompt # <<>>
  /\ ~TrimIsEmpty(ui.prompt)
  /\ ui' = [ui EXCEPT !.isGenerating = TRUE, !.error = null,
                      !.generatedImage = 0]
  /\ call' = Call(ui.customWidth, ui.customHeight)
  /\ Await(Request(getClosestAspectRatio(ui.customWidth, ui.customHeight), K1, FALSE))

\* LogoDesigner.handleGenerate up to its await, or to its early return
LogoHandleGenerate ==
  LET extracted == extractDimensionsFromPrompt(ui.additionalDetails)
      width  == IF ui.useCustomSize THEN ui.customWidth ELSE extracted.width
      height == IF ui.useCustomSize THEN ui.customHeight ELSE extracted.height
      sized  == ui.useCustomSize \/ extracted.found
      maxDim == MathMax(width, height)
      finalRatio == IF sized THEN getClosestAspectRatio(width, height) ELSE SQUARE
      finalSize ==
        IF sized /\ Greater(maxDim, 2048) THEN K4
        ELSE IF sized /\ Greater(maxDim, 1024) THEN K2
        ELSE K1
  IN  /\ mode = LOGO
      /\ ~ui.isGenerating
      /\ IF TrimIsEmpty(ui.brandName)
         THEN /\ ui.error # "Brand Name is required"
              /\ ui' = [ui EXCEPT !.error = "Brand Name is required"]
              /\ Input
              /\ UNCHANGED <<mode, inst, reqs, nreq, call, done,
                             ratioVars, textVars, storeVars>>
         ELSE /\ ui' = [ui EXCEPT !.isGenerating = TRUE, !.error = null,
                                  !.generatedImage = 0]
              /\ call' = IF sized THEN Call(width, height) ELSE call
              /\ Await(Request(finalRatio, finalSize, ui.usePro))

watermarkPrompt ==
  <<"R", "e", "m", "o", "v", "e", " ", "a", "l", "l", " ",
    "w", "a", "t", "e", "r", "m", "a", "r", "k", "s">>

\* Editor.handleEdit(promptOverride) up to its await, called by the Edit
\* button (disabled while isProcessing or while the prompt is empty), by
\* the Enter key in the prompt field and by the Remove Watermark tool
\* (disabled while isProcessing)
HandleEdit ==
  \E by \in {"button", "Enter", "tool"} :
    LET promptOverride == IF by = "tool" THEN watermarkPrompt ELSE <<>>
        promptToUse == IF promptOverride # <<>> THEN promptOverride ELSE ui.prompt
        extracted == extractDimensionsFromPrompt(promptToUse)
        width  == IF ui.useCustomSize THEN ui.customWidth ELSE extracted.width
        height == IF ui.useCustomSize THEN ui.customHeight ELSE extracted.height
        sized  == ui.useCustomSize \/ extracted.found
        aspectRatio ==
          IF sized THEN getClosestAspectRatio(width, height) ELSE undefined
    IN  /\ mode = EDITOR /\ ControlsShown
        /\ by = "button" => ~ui.isGenerating /\ ui.prompt # <<>>
        /\ by = "tool" => ~ui.isGenerating
        /\ ui.selectedImage # null /\ ~TrimIsEmpty(promptToUse)
        /\ ui' = [ui EXCEPT !.prompt = promptToUse, !.isGenerating = TRUE,
                            !.error = null]
        /\ call' = IF sized THEN Call(width, height) ELSE call
        /\ Await(Request(aspectRatio, undefined, FALSE))

\* ChatInterface.handleSend up to its await, called by the Send button and
\* by the Enter key
HandleSend ==
  /\ mode = ASSISTANT
  /\ ~TrimIsEmpty(ui.prompt) /\ ~ui.isGenerating
  /\ ui' = [ui EXCEPT !.messages = Append(@, "user"), !.prompt = <<>>,
                      !.isGenerating = TRUE]
  /\ UNCHANGED call
  /\ Await(Request(undefined, undefined, FALSE))

\* handleEnhancePrompt of Generator, FreeGenerator and Editor up to its
\* await; the button is disabled while isEnhancing or while the prompt is
\* empty, and the Editor's handler does not touch the error
HandleEnhancePromptAwait ==
  /\ mode \in {GENERATOR, FREE_GEN, EDITOR} /\ ControlsShown
  /\ ~ui.isEnhancing /\ ui.prompt # <<>>
  /\ ~TrimIsEmpty(ui.prompt)
  /\ ui' = [ui EXCEPT !.isEnhancing = TRUE,
                      !.error = IF mode = EDITOR THEN @ ELSE null]
  /\ UNCHANGED call
  /\ Await([Request(undefined, undefined, mode = EDITOR) EXCEPT !.kind = "enhance"])

\* A setState of a component that is no longer mounted changes nothing.
Mounted(request) == request.inst = inst

Settled(request, ok, img) ==
  [id |-> request.id, ok |-> ok, mounted |-> Mounted(request),
   quiet |-> request.quiet, img |-> img, kind |-> request.kind]

\* the awaited call resolves with an image: the handler shows it, hands it
\* to addToHistory and, in finally, clears the busy flag; whatever
\* addToHistory throws lands in the handler's catch
Resolved ==
  \E request \in reqs, f \in Faults, dt2 \in {0, 1} :
    LET base64 == nextImg + 1
        t  == now + 1
        t2 == t + dt2
        o  == addToHistory(ls, lsAccess, base64, t, t2, f)
    IN  /\ request.mode # ASSISTANT /\ request.kind = "action"
        /\ dt2 = 1 => Len(o.writes) = 3
        /\ ui' = IF Mounted(request)
                 THEN [ui EXCEPT !.generatedImage = base64,
                                 !.error = IF o.threw THEN "QuotaExceededError" ELSE @,
                                 !.isGenerating = FALSE]
                 ELSE ui
        /\ ls' = o.ls
        /\ now' = t2
        /\ nextImg' = base64
        /\ last' = Op("add", base64, t, o)
        /\ reqs' = reqs \ {request}
        /\ done' = Settled(request, TRUE, base64)
        /\ UNCHANGED <<lsAccess, events, mode, inst, nreq, inputs, call, ratioVars, textVars>>

\* a catch branch that makes the call once more
RejectedRetrying ==
  \E request \in reqs :
    /\ request.mode # ASSISTANT /\ request.kind = "action"
    /\ nreq' = nreq + 1
    /\ reqs' = (reqs \ {request}) \cup {[request EXCEPT !.id = nreq + 1]}
    /\ done' = Settled(request, FALSE, 0)
    /\ UNCHANGED <<ui, mode, inst, inputs, call, ratioVars, textVars, storeVars>>

\* a handler without its finally block
RejectedStaysBusy ==
  \E request \in reqs :
    /\ request.mode # ASSISTANT /\ request.kind = "action"
    /\ ui' = IF Mounted(request)
             THEN [ui EXCEPT !.error = "Rate limit exceeded (429)"]
             ELSE ui
    /\ reqs' = {IF Mounted(request) /\ Mounted(r) THEN [r EXCEPT !.quiet = FALSE] ELSE r :
                  r \in reqs \ {request}}
    /\ done' = Settled(request, FALSE, 0)
    /\ UNCHANGED <<mode, inst, nreq, inputs, call, ratioVars, textVars, storeVars>>

\* the awaited call rejects: catch shows the message, finally clears the
\* busy flag; the message is now on screen for the other calls the
\* component still awaits
Rejected ==
  \E request \in reqs :
    /\ request.mode # ASSISTANT /\ request.kind = "action"
    /\ ui' = IF Mounted(request)
             THEN [ui EXCEPT !.error = "Rate limit exceeded (429)",
                             !.isGenerating = FALSE]
             ELSE ui
    /\ reqs' = {IF Mounted(request) /\ Mounted(r) THEN [r EXCEPT !.quiet = FALSE] ELSE r :
                  r \in reqs \ {request}}
    /\ done' = Settled(request, FALSE, 0)
    /\ UNCHANGED <<mode, inst, nreq, inputs, call, ratioVars, textVars, storeVars>>

\* sendChatMessage settles: handleSend appends the reply, or in catch the
\* message of the error, and in finally clears isLoading
ChatSettled ==
  \E request \in reqs, ok \in BOOLEAN :
    /\ request.mode = ASSISTANT
    /\ ui' = IF Mounted(request)
             THEN [ui EXCEPT !.messages = Append(@, IF ok THEN "reply" ELSE "error"),
                             !.isGenerating = FALSE]
             ELSE ui
    /\ reqs' = reqs \ {request}
    /\ done' = Settled(request, ok, 0)
    /\ UNCHANGED <<mode, inst, nreq, inputs, call, ratioVars, textVars, storeVars>>

\* the sendChatMessage of handleEnhancePrompt settles: the handler replaces
\* the prompt by what it extracts from the reply, or in catch shows its
\* message (Generator and FreeGenerator), and in finally clears isEnhancing
EnhanceSettled ==
  \E request \in reqs, ok \in BOOLEAN, response \in Replies :
    \E enhanced \in {Enhanced[response]} :
      LET shows == ~ok /\ Mounted(request) /\ mode # EDITOR
      IN  /\ request.kind = "enhance"
          /\ ~ok => response = Placeholder
          /\ ui' = IF ~Mounted(request) THEN ui
                   ELSE IF ok
                   THEN [ui EXCEPT !.prompt = IF enhanced # <<>> THEN enhanced ELSE @,
                                   !.isEnhancing = FALSE]
                   ELSE [ui EXCEPT !.error = IF mode = EDITOR THEN @
                                             ELSE "Failed to enhance prompt. Please try again.",
                                   !.isEnhancing = FALSE]
          /\ reqs' = {IF shows /\ Mounted(r) THEN [r EXCEPT !.quiet = FALSE] ELSE r :
                        r \in reqs \ {request}}
          /\ done' = Settled(request, ok, 0)
          /\ UNCHANGED <<mode, inst, nreq, inputs, call, ratioVars, textVars, storeVars>>

NextUI ==
  \/ SetMode
  \/ SetInput
  \/ SetPrompt
  \/ SetBrandName
  \/ SetAdditionalDetails
  \/ SetUseCustomSize
  \/ SetCustomWidth
  \/ SetCustomHeight
  \/ SetUsePro
  \/ SetSize
  \/ HandleFileSelect
  \/ GeneratorHandleGenerate
  \/ FreeHandleGenerate
  \/ LogoHandleGenerate
  \/ HandleEdit
  \/ HandleSend
  \/ HandleEnhancePromptAwait
  \/ HistoryHandleDelete
  \/ HistoryHandleClearAll
  \/ Resolved
  \/ Rejected
  \/ ChatSettled
  \/ EnhanceSettled

SpecUI == InitUI /\ [][NextUI]_vars

\* SpecUILive: the steps that start or settle an action and the inputs
\* they need, every awaited upstream call settling in the end
NextBusy ==
  \/ SetMode
  \/ SetInput
  \/ SetPrompt
  \/ SetBrandName
  \/ HandleFileSelect
  \/ GeneratorHandleGenerate
  \/ FreeHandleGenerate
  \/ LogoHandleGenerate
  \/ HandleEdit
  \/ HandleSend
  \/ HandleEnhancePromptAwait
  \/ Resolved
  \/ Rejected
  \/ ChatSettled
  \/ EnhanceSettled

SpecUILive ==
  /\ InitUI /\ [][NextBusy]_vars
  /\ WF_vars(Resolved \/ Rejected)
  /\ WF_vars(ChatSettled)
  /\ WF_vars(EnhanceSettled)

(***************************************************************************)
(* Properties of the store                                                 *)
(***************************************************************************)
IsPrefix(a, b) == Len(a) <= Len(b) /\ a = SubSeq(b, 1, Len(a))
Without(list, i) == SubSeq(list, 1, i - 1) \o SubSeq(list, i + 1, Len(list))
\* the operation just performed left its new item in the store
Persisted(op) == op.writes # <<>> /\ ~op.writes[Len(op.writes)].threw

\* C1: the persisted history never holds more than MAX_ITEMS (30) items;
\* while only successful additions have happened it holds the newest
\* min(n, 30) of the n items added, newest first, so that after 31
\* additions exactly 30 remain and the first-added item is the absent one.
C1_Capacity ==
  /\ Len(History) <= MAX_ITEMS
  /\ events = 0 =>
       /\ Len(History) = Min(nextImg, MAX_ITEMS)
       /\ \A i \in 1..Len(History) : History[i].base64 = nextImg - i + 1
  /\ (events = 0 /\ nextImg = MAX_ITEMS + 1) =>
       /\ Len(History) = 30
       /\ \A i \in 1..Len(History) : History[i].base64 # 1

C1_Witness ==
  /\ events = 0 /\ nextImg = MAX_ITEMS + 1
  /\ Len(History) = 30 /\ History[30].base64 = 2 /\ History[1].base64 = 31

\* C2 as stated: whenever the first write of addToHistory fails, exactly one
\* more write is attempted, of the new item followed by the newer half of
\* the stored collection, whatever the size of that collection.
C2_RetryOnceAnySize ==
  [][(last'.op = "add" /\ last'.writes[1].threw) =>
       /\ Len(last'.writes) = 2
       /\ Tail(last'.writes[2].val) = SubSeq(History, 1, Len(History) \div 2)
       /\ Head(last'.writes[2].val).base64 = last'.img]_vars

\* C2 amended: when the first write fails and more than 5 items are stored,
\* the newer half (the floor(n/2) newest items) is written back first, and
\* if that write succeeds exactly one more write is attempted, of the new
\* item followed by that newer half; with 5 items or fewer stored no
\* further write is attempted and the store is left as it was.
C2_Fallback ==
  [][(last'.op = "add" /\ last'.writes[1].threw) =>
       LET half == SubSeq(History, 1, Len(History) \div 2)
           w    == last'.writes
       IN  IF Len(History) > 5
           THEN /\ Len(w) \in {2, 3}
                /\ w[2].val = half
                /\ Len(w) = 2 <=> w[2].threw
                /\ Len(w) = 2 => History' = History
                /\ Len(w) = 3 =>
                     /\ Len(w[3].val) = Len(half) + 1
                     /\ Head(w[3].val) = HistoryItem(now', last'.img)
                     /\ Tail(w[3].val) = half
                     /\ History' = IF w[3].threw THEN half ELSE w[3].val
           ELSE Len(w) = 1 /\ History' = History]_vars

C2_Witness ==
  /\ last.op = "add" /\ Len(last.writes) = 3
  /\ last.writes[1].threw /\ ~last.writes[3].threw
  /\ Len(History) = 4 /\ History[1].base64 = last.img

\* C3: after an addToHistory that persisted its item, getHistory returns the
\* new item first, followed by previously stored items in their previous
\* order (all of them, up to the capacity, when the first write succeeded);
\* in every state the stored items are ordered most recent first by
\* insertion.
C3_NewestFirst ==
  [][/\ \A i, j \in 1..Len(History') :
          i < j => History'[i].base64 > History'[j].base64
     /\ (last'.op = "add" /\ Persisted(last')) =>
          /\ History'[1] = HistoryItem(now', last'.img)
          /\ IsPrefix(Tail(History'), History)
          /\ ~last'.writes[1].threw =>
               Len(History') = Min(Len(History) + 1, MAX_ITEMS)]_vars

C3_Witness ==
  /\ last.op = "add" /\ Persisted(last)
  /\ Len(History) >= 3 /\ History[1].base64 = last.img
  /\ History[2].base64 < last.img

\* C4: the stored history items have pairwise distinct identifiers, and so
\* do the saved prompts.
C4_DistinctIds ==
  /\ \A i, j \in 1..Len(History) : i # j => History[i].id # History[j].id
  /\ \A i, j \in 1..Len(Prompts) : i # j => Prompts[i].id # Prompts[j].id

\* C5: deleteHistoryItem(id) removes the one entry whose identifier is id
\* and leaves every other entry in place and in order; when no entry has
\* that identifier getHistory is unchanged and nothing is raised.
C5_DeleteOne ==
  [][(last'.op = "delete" /\ Persisted(last')) =>
       /\ ~last'.threw
       /\ IF \E i \in 1..Len(History) : History[i].id = last'.id
          THEN \E i \in 1..Len(History) :
                 History[i].id = last'.id /\ History' = Without(History, i)
          ELSE History' = History]_vars

\* C6: getHistory and getSavedPrompts return the empty collection when the
\* store holds no value or cannot be read or parsed, and no storage
\* operation lets an exception reach its caller.
C6_NeverThrows ==
  /\ (~lsAccess \/ ls[STORAGE_KEY].k # "json") => History = <<>>
  /\ (~lsAccess \/ ls[SAVED_PROMPTS_KEY].k # "json") => Prompts = <<>>
  /\ ~last.threw

\* C23: savePrompt never evicts.  A savePrompt whose write succeeds puts its
\* prompt in front of the prompts stored before, all of them; so after n
\* successful calls and no deletion getSavedPrompts returns n prompts, most
\* recent first, also for n above 30.
C23_NeverEvicts ==
  [][last'.op = "savePrompt" =>
       /\ Persisted(last') =>
            /\ Head(Prompts') = SavedPrompt(now', "a cat")
            /\ Tail(Prompts') = Prompts
       /\ ~Persisted(last') => Prompts' = Prompts
       /\ Len(Prompts') = inputs' - events'
       /\ \A i, j \in 1..Len(Prompts') :
            i < j => Prompts'[i].id > Prompts'[j].id]_vars

C23_Witness ==
  /\ last.op = "savePrompt" /\ Persisted(last)
  /\ Len(Prompts) = MAX_ITEMS + 1 /\ inputs = MAX_ITEMS + 1
  /\ Prompts[1].id = now /\ Prompts[MAX_ITEMS + 1].id = 1

\* C24: addToHistory (its fallback included), deleteHistoryItem and
\* clearAllHistory leave what is stored for the saved prompts unchanged, and
\* savePrompt and deleteSavedPrompt leave what is stored for the history
\* unchanged.
C24_Independent ==
  [][/\ last'.op \in {"add", "delete", "clear"} =>
          /\ ls'[SAVED_PROMPTS_KEY] = ls[SAVED_PROMPTS_KEY]
          /\ Prompts' = Prompts
          /\ \A i \in 1..Len(last'.writes) : last'.writes[i].key = STORAGE_KEY
     /\ last'.op \in {"savePrompt", "deletePrompt"} =>
          /\ ls'[STORAGE_KEY] = ls[STORAGE_KEY]
          /\ History' = History
          /\ \A i \in 1..Len(last'.writes) : last'.writes[i].key = SAVED_PROMPTS_KEY]_vars

C24_Witness ==
  /\ last.op = "add" /\ Len(last.writes) = 3 /\ Persisted(last)
  /\ Len(Prompts) = 1 /\ Len(History) = 4

\* two invocations of the same kind, one right after the other, the
\* earlier of which stored its addition
TwoSaves ==
  /\ last.op = "savePrompt" /\ Persisted(last)
  /\ last'.op = "savePrompt"
TwoAdds ==
  /\ last.op = "add" /\ Persisted(last)
  /\ last'.op = "add"
\* the later one comes within the same millisecond
SameMillisecond == last'.id = last.id

C27_FailedAddKeepsHistory ==
  [][(last'.op = "add" /\ ~Persisted(last')) => History' = History]_vars

\* C22: clearAllHistory leaves the history empty whatever it held, and a
\* second call right after it leaves it empty again; neither call fails.
C22_ClearTwice ==
  [][last'.op = "clear" =>
       /\ History' = <<>>
       /\ ~last'.threw
       /\ last.op = "clear" => (History = <<>> /\ ~last.threw)]_vars

(***************************************************************************)
(* Properties of the components                                            *)
(***************************************************************************)
\* the step that settles an upstream call with an image, for a component
\* that is still mounted
Success ==
  /\ done'.id # done.id /\ done'.kind = "action" /\ mode # ASSISTANT
  /\ done'.ok /\ done'.mounted

\* C7: when an upstream generation or edit succeeds, the image becomes the
\* displayed result of the component that asked for it and the success
\* shows no error, whatever becomes of the writes addToHistory attempts for
\* that image: the error field is left as it was, and it is null unless
\* another call the component awaited was rejected in the meantime.
C7_ResultShown ==
  [][Success =>
       /\ ui'.generatedImage = done'.img
       /\ ui'.error = ui.error
       /\ done'.quiet => ui'.error = null]_vars

C7_Witness ==
  /\ done.ok /\ done.mounted /\ done.quiet
  /\ last.op = "add" /\ last.img = done.img
  /\ Len(last.writes) = 2 /\ last.writes[1].threw /\ last.writes[2].threw
  /\ ui.generatedImage = done.img /\ ui.error = null

\* C10: every call of getClosestAspectRatio made by a handler, with a size
\* the user typed or one extracted from text, has a width and a height
\* that are numbers greater than zero.
C10_PositiveDimensions ==
  call.made =>
    /\ ~call.width.nan /\ call.width.v > 0
    /\ ~call.height.nan /\ call.height.v > 0
\* the tier the thresholds give to the larger dimension
TierOf(maxDim) ==
  IF Greater(maxDim, 2048) THEN K4 ELSE IF Greater(maxDim, 1024) THEN K2 ELSE K1

\* C11: whenever handleGenerate of the Generator or of the LogoDesigner has
\* a width and a height, typed as custom size or extracted from the text,
\* the size it hands to generateImage is the tier of max(width, height):
\* 4K above 2048, 2K above 1024, 1K otherwise, whatever size was selected.
C11_TierByMaxDim ==
  [][(nreq' = nreq + 1 /\ mode \in {GENERATOR, LOGO}) =>
       LET text == IF mode = GENERATOR THEN ui.prompt ELSE ui.additionalDetails
           extracted == extractDimensionsFromPrompt(text)
           width  == IF ui.useCustomSize THEN ui.customWidth ELSE extracted.width
           height == IF ui.useCustomSize THEN ui.customHeight ELSE extracted.height
           request == CHOOSE r \in reqs' : r.id = nreq'
       IN  (ui.useCustomSize \/ extracted.found) =>
             request.size = TierOf(MathMax(width, height))]_vars

(***************************************************************************)
(* SpecDims: extractDimensionsFromPrompt on texts.  A text is one of the   *)
(* samples, taken as typed in full, or is typed piece by piece.            *)
(***************************************************************************)
MaxPieces == 5

Cyberpunk ==
  <<"C", "y", "b", "e", "r", "p", "u", "n", "k", " ", "c", "i", "t",
    "y", " ", "1", "9", "2", "0", "x", "1", "0", "8", "0">>
Sunset ==
  <<"a", " ", "n", "i", "c", "e", " ", "s", "u", "n", "s", "e", "t">>
Grid ==
  <<"a", " ", "4", "x", "4", " ", "g", "r", "i", "d">>
Pixels ==
  <<"1", "0", "0", "0", "p", "x", " ", "b", "y", " ", "1", "0", "0",
    "0", "p", "x">>
Compact ==
  <<"1", "9", "2", "0", "x", "1", "0", "8", "0">>
Spaced ==
  <<"1", "9", "2", "0", " ", "x", " ", "1", "0", "8", "0">>
SampleTexts == {Cyberpunk, Sunset, Grid, Pixels, Compact, Spaced}

Pieces == {<<"1", "2">>, <<"3", "4", "5">>, <<" ">>, <<"X">>, <<"b", "Y">>,
           <<"b">>, <<"a">>}

IdleBut(typed) ==
  /\ ls = [key \in Keys |-> NoValue]
  /\ lsAccess = TRUE
  /\ now = 0 /\ nextImg = 0 /\ events = 0 /\ last = NoOp
  /\ rw = 1 /\ rh = 1 /\ rres = "none"
  /\ mode = ASSISTANT /\ inst = 0 /\ ui = InitialUi
  /\ reqs = {} /\ nreq = 0 /\ call = NoCall /\ done = NoDone
  /\ inputs = typed

InitDims ==
  /\ \/ targ = <<>> /\ IdleBut(0)
     \/ targ \in SampleTexts /\ IdleBut(MaxPieces)
  /\ tres = NoResult

TextSame ==
  UNCHANGED <<ratioVars, storeVars, mode, inst, ui, reqs, nreq, call, done>>

TypeText ==
  \E piece \in Pieces :
    /\ inputs < MaxPieces
    /\ inputs' = inputs + 1
    /\ targ' = targ \o piece
    /\ tres' = NoResult
    /\ TextSame

ExtractDimensions ==
  /\ ~tres.called
  /\ tres' = Result(extractDimensionsFromPrompt(targ))
  /\ UNCHANGED <<targ, inputs>>
  /\ TextSame

NextDims == TypeText \/ ExtractDimensions

SpecDims == InitDims /\ [][NextDims]_vars

(***************************************************************************)
(* Properties of extractDimensionsFromPrompt                               *)
(***************************************************************************)
DigitsAt(str, a, n) ==
  a + n - 1 <= Len(str) /\ \A i \in a..(a + n - 1) : IsDigit(str[i])
SpacesAt(str, a, n) ==
  a + n - 1 <= Len(str) /\ \A i \in a..(a + n - 1) : IsSpace(str[i])
\* 'x' (n = 1) or 'by' (n = 2) in any letter case
SeparatorAt(str, a, n) ==
  \/ n = 1 /\ a <= Len(str) /\ str[a] \in {"x", "X"}
  \/ n = 2 /\ a + 1 <= Len(str) /\ str[a] \in {"b", "B"} /\ str[a + 1] \in {"y", "Y"}

\* an occurrence at p: n1 digits, k1 white space, the separator, k2 white
\* space, n2 digits that start at b
OccurrenceAt(str, p, n1, b, n2) ==
  /\ n1 \in 3..5 /\ n2 \in 3..5
  /\ DigitsAt(str, p, n1)
  /\ \E k1 \in 0..(Len(str) - p - n1) :
       /\ SpacesAt(str, p + n1, k1)
       /\ \E n \in 1..2 :
            /\ SeparatorAt(str, p + n1 + k1, n)
            /\ \E k2 \in 0..(Len(str) - p - n1 - k1 - n) :
                 /\ SpacesAt(str, p + n1 + k1 + n, k2)
                 /\ b = p + n1 + k1 + n + k2
                 /\ DigitsAt(str, b, n2)
OccursAt(str, p) ==
  \E n1 \in 3..5, b \in p..Len(str), n2 \in 3..5 : OccurrenceAt(str, p, n1, b, n2)

RECURSIVE ValueOf(_, _, _)
ValueOf(str, a, n) ==
  IF n = 0 THEN 0
  ELSE 10 * ValueOf(str, a, n - 1) + DigitVal(str[a + n - 1])

\* C12: extractDimensionsFromPrompt returns the pair of integers of the
\* leftmost occurrence in the text of 3 to 5 digits, optional white space,
\* 'x' or 'by' in any letter case, optional white space and 3 to 5 digits
\* (each number taken as long as the pattern allows), and null when there
\* is no occurrence; 'Cyberpunk city 1920x1080' gives (1920, 1080) and
\* 'a nice sunset' gives null.
C12_FirstOccurrence ==
  tres.called =>
    LET r == tres.value
    IN  /\ IF \E p \in 1..Len(targ) : OccursAt(targ, p)
           THEN LET p  == CHOOSE q \in 1..Len(targ) :
                            OccursAt(targ, q) /\ \A j \in 1..(q - 1) : ~OccursAt(targ, j)
                    n1 == CHOOSE n \in 3..5 :
                            /\ \E b \in p..Len(targ), n2 \in 3..5 : OccurrenceAt(targ, p, n, b, n2)
                            /\ \A m \in (n + 1)..5 :
                                 ~\E b \in p..Len(targ), n2 \in 3..5 : OccurrenceAt(targ, p, m, b, n2)
                    b  == CHOOSE c \in p..Len(targ) :
                            \E n2 \in 3..5 : OccurrenceAt(targ, p, n1, c, n2)
                    n2 == CHOOSE n \in 3..5 :
                            /\ OccurrenceAt(targ, p, n1, b, n)
                            /\ \A m \in (n + 1)..5 : ~OccurrenceAt(targ, p, n1, b, m)
                IN  /\ r.found
                    /\ r.width = Num(ValueOf(targ, p, n1))
                    /\ r.height = Num(ValueOf(targ, b, n2))
           ELSE ~r.found
        /\ targ = Cyberpunk => r.found /\ r.width = Num(1920) /\ r.height = Num(1080)
        /\ targ = Sunset => ~r.found

C12_Witness ==
  /\ targ = Cyberpunk /\ tres.called
  /\ tres.value.found /\ tres.value.width = Num(1920) /\ tres.value.height = Num(1080)

\* C13 as stated: extractDimensionsFromPrompt applied to 'a 4x4 grid'
\* reports a match with width 4 and height 4.
C13_GridMatches ==
  (targ = Grid /\ tres.called) =>
    /\ tres.value.found
    /\ tres.value.width = Num(4) /\ tres.value.height = Num(4)

\* C13 amended: extractDimensionsFromPrompt applied to 'a 4x4 grid' reports
\* no match, since each number of the pattern needs 3 to 5 digits.
C13_GridNoMatch ==
  (targ = Grid /\ tres.called) => ~tres.value.found

C13_Witness == targ = Grid /\ tres.called /\ ~tres.value.found

\* C26: extractDimensionsFromPrompt matches each of '1920x1080',
\* '1920 x 1080' and '1000px by 1000px' and returns the two numbers of the
\* text as width and height.
C26_DocumentedForms ==
  tres.called =>
    /\ targ \in {Compact, Spaced} =>
         /\ tres.value.found
         /\ tres.value.width = Num(1920) /\ tres.value.height = Num(1080)
    /\ targ = Pixels =>
         /\ tres.value.found
         /\ tres.value.width = Num(1000) /\ tres.value.height = Num(1000)

(***************************************************************************)
(* The enhanced prompt of a response: the Use and Save buttons of the      *)
(* chat and handleEnhancePrompt of Generator, FreeGenerator and Editor.    *)
(* targ is the text of the response, tres what the handler extracted.      *)
(* FreeGenerator and Editor repeat the lines of Generator and run on the   *)
(* examples.                                                               *)
(***************************************************************************)
MaxParts == 4

StarredLabel ==
  <<"*", "*", "E", "n", "h", "a", "n", "c", "e", "d", " ", "P", "r",
    "o", "m", "p", "t", ":", "*", "*">>
BareLabel ==
  <<"E", "n", "h", "a", "n", "c", "e", "d", " ", "P", "r", "o", "m",
    "p", "t", ":">>
Body == <<" ", "A", " ", "c", "a", "t", ".", " ">>
NewLine == <<"\n">>
StarredStyle ==
  <<"*", "*", "S", "t", "y", "l", "e", " ", "S", "u", "g", "g", "e",
    "s", "t", "i", "o", "n", "s", ":", "*", "*">>


Parts == {StarredLabel, BareLabel, Body, NewLine, StarredStyle, Rule}

\* the example of the specification, the format the system instruction
\* asks for, and the text sendChatMessage puts in place of an empty response
CatBare ==
  <<"E", "n", "h", "a", "n", "c", "e", "d", " ", "P", "r", "o", "m",
    "p", "t", ":", " ", "A", " ", "c", "a", "t", ".", "\n", "S", "t",
    "y", "l", "e", " ", "S", "u", "g", "g", "e", "s", "t", "i", "o",
    "n", "s", ":">>
CatStarred ==
  <<"*", "*", "E", "n", "h", "a", "n", "c", "e", "d", " ", "P", "r",
    "o", "m", "p", "t", ":", "*", "*", " ", "A", " ", "c", "a", "t",
    ".", "\n", "*", "*", "S", "t", "y", "l", "e", " ", "S", "u", "g",
    "g", "e", "s", "t", "i", "o", "n", "s", ":", "*", "*">>
CatAlone ==
  <<"*", "*", "E", "n", "h", "a", "n", "c", "e", "d", " ", "P", "r",
    "o", "m", "p", "t", ":", "*", "*", " ", "A", " ", "c", "a", "t", ".">>
CatOptions ==
  <<"*", "E", "n", "h", "a", "n", "c", "e", "d", " ", "P", "r", "o",
    "m", "p", "t", "*", "\n", "A", " ", "c", "a", "t", ".", "\n", " ",
    " ", "*", "o", "p", "t", "i", "o", "n", "s", "*", "\n", "-", " ",
    "N", "o", "i", "r">>

Examples == {CatAnime, CatBare, CatStarred, CatAlone, CatOptions, Placeholder}

RECURSIVE Joined(_)
Joined(n) ==
  IF n = 0 THEN {<<>>}
  ELSE Joined(n - 1) \cup {r \o part : r \in Joined(n - 1), part \in Parts}

Responses == (Joined(MaxParts) \ {<<>>}) \cup Examples

EnhanceFailed ==
  <<"F", "a", "i", "l", "e", "d", " ", "t", "o", " ", "e", "n", "h",
    "a", "n", "c", "e", " ", "p", "r", "o", "m", "p", "t", ".", " ",
    "P", "l", "e", "a", "s", "e", " ", "t", "r", "y", " ", "a", "g",
    "a", "i", "n", ".">>

Extracted(site, value) == Result([site |-> site, text |-> value])

InitEnhance ==
  /\ targ \in Responses
  /\ tres = NoResult
  /\ \/ mode \in {ASSISTANT, GENERATOR}
     \/ mode \in {FREE_GEN, EDITOR} /\ targ \in Examples
  /\ ui = IF mode = ASSISTANT THEN InitialUi
          ELSE IF mode = EDITOR
          THEN [InitialUi EXCEPT !.prompt = ACat, !.selectedImage = "file"]
          ELSE [InitialUi EXCEPT !.prompt = ACat]
  /\ inst = 0 /\ reqs = {} /\ nreq = 0 /\ inputs = 0
  /\ call = NoCall /\ done = NoDone
  /\ ls = [key \in Keys |-> NoValue] /\ lsAccess = TRUE
  /\ now = 0 /\ nextImg = 0 /\ events = 0 /\ last = NoOp
  /\ rw = 1 /\ rh = 1 /\ rres = "none"

\* one handler runs on the response
Click == ~tres.called /\ UNCHANGED inputs

\* ChatInterface: the two buttons are rendered under a model message whose
\* text has the label as includes finds it
isEnhancedMsg(str) ==
  includes(str, BareLabel) \/ includes(str, SubSeq(StarredLabel, 1, 17))

\* the Use Enhanced Prompt button, then App.handleUsePrompt: the Generator
\* is mounted with the prompt as its initialPrompt
UseEnhancedPrompt ==
  /\ mode = ASSISTANT /\ isEnhancedMsg(targ)
  /\ Click
  /\ \E value \in {extractedPrompt(targ)} :
      /\ tres' = Extracted("use", value)
      /\ IF value # <<>>
         THEN /\ mode' = GENERATOR
              /\ inst' = inst + 1
              /\ ui' = [InitialUi EXCEPT !.prompt = value]
         ELSE UNCHANGED <<mode, inst, ui>>
      /\ UNCHANGED <<targ, ratioVars, storeVars, reqs, nreq, call, done>>

\* the Save button, then handleSavePrompt
SaveEnhancedPrompt ==
  /\ mode = ASSISTANT /\ isEnhancedMsg(targ)
  /\ Click
  /\ \E dt \in {0, 1}, fail \in BOOLEAN, value \in {extractedPrompt(targ)} :
    LET t == now + dt
        o == savePrompt(ls, lsAccess, value, t, fail)
    IN  /\ tres' = Extracted("save", value)
        /\ IF value # <<>>
           THEN /\ ls' = o.ls
                /\ now' = t
                /\ last' = Op("savePrompt", 0, t, o)
           ELSE UNCHANGED <<ls, now, last>>
        /\ UNCHANGED <<targ, lsAccess, nextImg, events, ratioVars, mode, inst, ui,
                       reqs, nreq, call, done>>

\* handleEnhancePrompt of the mounted component, from the click to the end
\* of its finally block, the component staying mounted: sendChatMessage
\* resolves with targ or rejects
HandleEnhancePrompt(showsError) ==
  /\ ~TrimIsEmpty(ui.prompt)
  /\ Click
  /\ \E ok \in BOOLEAN, value \in {enhancedPrompt(targ)} :
    LET start == IF showsError THEN [ui EXCEPT !.error = null] ELSE ui
    IN  /\ IF ok
           THEN /\ tres' = Extracted("enhance", value)
                /\ ui' = IF value # <<>> THEN [start EXCEPT !.prompt = value]
                         ELSE start
           ELSE /\ tres' = NoResult
                /\ ui' = IF showsError THEN [start EXCEPT !.error = EnhanceFailed]
                         ELSE start
        /\ UNCHANGED <<targ, mode, inst, ratioVars, storeVars, reqs, nreq,
                       call, done>>

GeneratorEnhance ==
  /\ mode = GENERATOR
  /\ HandleEnhancePrompt(TRUE)

FreeEnhance ==
  /\ mode = FREE_GEN
  /\ HandleEnhancePrompt(TRUE)

\* Editor.handleEnhancePrompt has no catch that sets the error
EditorEnhance ==
  /\ mode = EDITOR
  /\ HandleEnhancePrompt(FALSE)

NextEnhance ==
  \/ UseEnhancedPrompt
  \/ SaveEnhancedPrompt
  \/ GeneratorEnhance
  \/ FreeEnhance
  \/ EditorEnhance

SpecEnhance == InitEnhance /\ [][NextEnhance]_vars

(***************************************************************************)
(* services/geminiService.ts: handleGeminiError and the three wrappers     *)
(***************************************************************************)
AccessDeniedPro ==
  <<"A", "c", "c", "e", "s", "s", " ", "D", "e", "n", "i", "e", "d",
    " ", "f", "o", "r", " ", "P", "r", "o", " ", "M", "o", "d", "e",
    "l", " ", "(", "4", "0", "3", ")", ".", " ", "T", "h", "i", "s",
    " ", "m", "o", "d", "e", "l", " ", "l", "i", "k", "e", "l", "y",
    " ", "r", "e", "q", "u", "i", "r", "e", "s", " ", "a", " ", "p",
    "a", "i", "d", " ", "t", "i", "e", "r", ".", " ", "P", "l", "e",
    "a", "s", "e", " ", "s", "w", "i", "t", "c", "h", " ", "t", "o",
    " ", "'", "F", "l", "a", "s", "h", " ", "(", "F", "r", "e", "e",
    ")", "'", " ", "i", "n", " ", "t", "h", "e", " ", "s", "e", "t",
    "t", "i", "n", "g", "s", " ", "o", "r", " ", "c", "h", "e", "c",
    "k", " ", "y", "o", "u", "r", " ", "A", "P", "I", " ", "k", "e",
    "y", " ", "b", "i", "l", "l", "i", "n", "g", ".">>
AccessDenied ==
  <<"A", "c", "c", "e", "s", "s", " ", "D", "e", "n", "i", "e", "d",
    " ", "(", "4", "0", "3", ")", ".", " ", "P", "l", "e", "a", "s",
    "e", " ", "c", "h", "e", "c", "k", " ", "i", "f", " ", "y", "o",
    "u", "r", " ", "A", "P", "I", " ", "k", "e", "y", " ", "i", "s",
    " ", "v", "a", "l", "i", "d", " ", "a", "n", "d", " ", "h", "a",
    "s", " ", "t", "h", "e", " ", "G", "e", "n", "e", "r", "a", "t",
    "i", "v", "e", " ", "A", "I", " ", "A", "P", "I", " ", "e", "n",
    "a", "b", "l", "e", "d", ".">>
RateLimitExceeded ==
  <<"R", "a", "t", "e", " ", "l", "i", "m", "i", "t", " ", "e", "x",
    "c", "e", "e", "d", "e", "d", " ", "(", "4", "2", "9", ")", ".",
    " ", "Y", "o", "u", " ", "a", "r", "e", " ", "s", "e", "n", "d",
    "i", "n", "g", " ", "r", "e", "q", "u", "e", "s", "t", "s", " ",
    "t", "o", "o", " ", "q", "u", "i", "c", "k", "l", "y", ".", " ",
    "P", "l", "e", "a", "s", "e", " ", "w", "a", "i", "t", " ", "a",
    " ", "m", "o", "m", "e", "n", "t", ".">>
NoImageData ==
  <<"N", "o", " ", "i", "m", "a", "g", "e", " ", "d", "a", "t", "a",
    " ", "r", "e", "c", "e", "i", "v", "e", "d", " ", "f", "r", "o",
    "m", " ", "G", "e", "m", "i", "n", "i", ".">>
NoEditedImage ==
  <<"N", "o", " ", "e", "d", "i", "t", "e", "d", " ", "i", "m", "a",
    "g", "e", " ", "r", "e", "t", "u", "r", "n", "e", "d", ".", " ",
    "T", "h", "e", " ", "m", "o", "d", "e", "l", " ", "m", "i", "g",
    "h", "t", " ", "h", "a", "v", "e", " ", "r", "e", "f", "u", "s",
    "e", "d", " ", "t", "h", "e", " ", "e", "d", "i", "t", " ", "o",
    "r", " ", "o", "u", "t", "p", "u", "t", " ", "t", "e", "x", "t",
    " ", "i", "n", "s", "t", "e", "a", "d", ".">>
\* the message of the TypeError of response.candidates[0].content
NoContent ==
  <<"C", "a", "n", "n", "o", "t", " ", "r", "e", "a", "d", " ", "p",
    "r", "o", "p", "e", "r", "t", "i", "e", "s", " ", "o", "f", " ",
    "u", "n", "d", "e", "f", "i", "n", "e", "d", " ", "(", "r", "e",
    "a", "d", "i", "n", "g", " ", "'", "c", "o", "n", "t", "e", "n",
    "t", "'", ")">>
\* the message of the TypeError of (response.candidates[0].content).parts
NoParts ==
  <<"C", "a", "n", "n", "o", "t", " ", "r", "e", "a", "d", " ", "p",
    "r", "o", "p", "e", "r", "t", "i", "e", "s", " ", "o", "f", " ",
    "u", "n", "d", "e", "f", "i", "n", "e", "d", " ", "(", "r", "e",
    "a", "d", "i", "n", "g", " ", "'", "p", "a", "r", "t", "s", "'", ")">>
\* Error.prototype.toString() of an error whose message is empty
ErrorName == <<"E", "r", "r", "o", "r">>

PermissionDenied ==
  <<"P", "E", "R", "M", "I", "S", "S", "I", "O", "N", "_", "D", "E",
    "N", "I", "E", "D">>
ResourceExhausted ==
  <<"R", "E", "S", "O", "U", "R", "C", "E", "_", "E", "X", "H", "A",
    "U", "S", "T", "E", "D">>

\* a property that is undefined, and one that has the value v
Absent == [some |-> FALSE]
Value(v) == [some |-> TRUE, v |-> v]

\* an object thrown: its status property and its message
Thrown(status, message) == [status |-> status, message |-> message]

Pro == "Pro"
Flash == "Flash"
Text == "Text"

\* handleGeminiError(error, modelType): the message of the Error it throws
handleGeminiError(error, modelType) ==
  LET errorMessage == IF error.message # <<>> THEN error.message ELSE ErrorName
      isPermissionError ==
        \/ error.status = Value(403)
        \/ includes(errorMessage, <<"4", "0", "3">>)
        \/ includes(errorMessage, PermissionDenied)
      isQuotaError ==
        \/ error.status = Value(429)
        \/ includes(errorMessage, <<"4", "2", "9">>)
        \/ includes(errorMessage, ResourceExhausted)
  IN  IF isPermissionError
      THEN (IF modelType = Pro THEN AccessDeniedPro ELSE AccessDenied)
      ELSE IF isQuotaError THEN RateLimitExceeded
      ELSE errorMessage

\* how a wrapper settles
Resolves(payload) == [ok |-> TRUE, payload |-> payload]
Rejects(message) == [ok |-> FALSE, payload |-> message]

\* `data:image/png;base64,${part.inlineData.data}`
DataUrl(data) == <<"data:image/png;base64,", data>>

\* the first part with inlineData, 0 when no part has any
RECURSIVE FirstInline(_, _)
FirstInline(parts, i) ==
  IF i > Len(parts) THEN 0
  ELSE IF parts[i].inlineData.some THEN i
  ELSE FirstInline(parts, i + 1)

\* the try block of generateImage and editImage after the await: the data
\* URL returned, or what is thrown, by the code or by the property access
ExtractImage(response, none) ==
  IF ~response.candidates.some THEN Rejects(Thrown(Absent, none))
  ELSE IF response.candidates.v = <<>>
       THEN Rejects(Thrown(Absent, NoContent))
  ELSE IF ~response.candidates.v[1].content.some
       THEN Rejects(Thrown(Absent, NoParts))
  ELSE IF ~response.candidates.v[1].content.v.parts.some
       THEN Rejects(Thrown(Absent, none))
  ELSE LET parts == response.candidates.v[1].content.v.parts.v
       IN  IF FirstInline(parts, 1) = 0 THEN Rejects(Thrown(Absent, none))
           ELSE Resolves(DataUrl(parts[FirstInline(parts, 1)].inlineData.v))

\* the wrapper around an upstream call that threw error or returned response
Wrapped(attempt, modelType) ==
  IF attempt.ok THEN attempt
  ELSE Rejects(handleGeminiError(attempt.payload, modelType))

generateImage(upstream, usePro) ==
  Wrapped(IF upstream.ok THEN ExtractImage(upstream.payload, NoImageData)
          ELSE upstream,
          IF usePro THEN Pro ELSE Flash)

editImage(upstream) ==
  Wrapped(IF upstream.ok THEN ExtractImage(upstream.payload, NoEditedImage)
          ELSE upstream,
          Flash)

\* response.text || "I couldn't generate a text response."
sendChatMessage(upstream, useThinking) ==
  Wrapped(IF upstream.ok
          THEN Resolves(IF upstream.payload.text.some
                           /\ upstream.payload.text.v # <<>>
                        THEN upstream.payload.text.v ELSE Placeholder)
          ELSE upstream,
          IF useThinking THEN Pro ELSE Text)

(***************************************************************************)
(* ChatInterface renders a model message: extractStyles on its text.       *)
(* targ is the text of the message, tres the list of styles.               *)
(***************************************************************************)
MaxTokens == 4

Star == <<"*", " ">>
Hyphen == <<"-", " ">>
Numbered == <<"1", ".", " ">>
Dot == <<Bullet, " ">>
Anime == <<"A", "n", "i", "m", "e">>
ThreeD == <<"3", "D">>

Tokens == {StarredStyle, NewLine, Star, Hyphen, Numbered, Dot, Anime, ThreeD,
           Rule}

AnimeThreeD ==
  <<"*", "*", "S", "t", "y", "l", "e", " ", "S", "u", "g", "g", "e",
    "s", "t", "i", "o", "n", "s", ":", "*", "*", "\n", "*", " ", "A",
    "n", "i", "m", "e", "\n", "3", "D", " ", "r", "e", "n", "d", "e",
    "r">>
NoirList ==
  <<"*", "s", "t", "y", "l", "e", " ", "s", "u", "g", "g", "e", "s",
    "t", "i", "o", "n", "s", "*", "\n", "-", " ", "N", "o", "i", "r",
    "\n", "\n", "2", ".", " ", "A", "n", "i", "m", "e", " ", " ", "\n",
    "-", "-", "-", "\n", "*", " ", "O", "t", "h", "e", "r">>

RECURSIVE Strung(_)
Strung(n) ==
  IF n = 0 THEN {<<>>}
  ELSE Strung(n - 1) \cup {r \o token : r \in Strung(n - 1), token \in Tokens}

Messages == (Strung(MaxTokens) \ {<<>>}) \cup Examples \cup {AnimeThreeD, NoirList}

InitStyles ==
  /\ targ \in Messages
  /\ tres = NoResult
  /\ IdleBut(0)

\* the render of the message
ExtractStyles ==
  /\ ~tres.called
  /\ tres' = Result(extractStyles(targ))
  /\ UNCHANGED <<targ, inputs>>
  /\ TextSame

NextStyles == ExtractStyles

SpecStyles == InitStyles /\ [][NextStyles]_vars

(***************************************************************************)
(* The wrappers of the upstream calls.  targ is a call with what the       *)
(* upstream did, tres how the wrapper settled.                             *)
(***************************************************************************)
Overloaded ==
  <<"T", "h", "e", " ", "m", "o", "d", "e", "l", " ", "i", "s", " ",
    "o", "v", "e", "r", "l", "o", "a", "d", "e", "d", ".", " ", "P",
    "l", "e", "a", "s", "e", " ", "t", "r", "y", " ", "a", "g", "a",
    "i", "n", " ", "l", "a", "t", "e", "r", ".">>
TokenCount ==
  <<"T", "h", "e", " ", "i", "n", "p", "u", "t", " ", "t", "o", "k",
    "e", "n", " ", "c", "o", "u", "n", "t", " ", "(", "1", "0", "4",
    "8", "4", "2", "9", ")", " ", "e", "x", "c", "e", "e", "d", "s",
    " ", "t", "h", "e", " ", "m", "a", "x", "i", "m", "u", "m", " ",
    "n", "u", "m", "b", "e", "r", " ", "o", "f", " ", "t", "o", "k",
    "e", "n", "s", " ", "a", "l", "l", "o", "w", "e", "d", ".">>

Statuses == {Absent, Value(403), Value(429), Value(500)}
ErrorMessages == {<<>>, PermissionDenied, ResourceExhausted, Overloaded, TokenCount}
Errors == {Thrown(status, message) : status \in Statuses, message \in ErrorMessages}

TextPart == [inlineData |-> Absent]
InlinePart(data) == [inlineData |-> Value(data)]
PartLists == {<<>>, <<TextPart>>, <<TextPart, TextPart>>, <<InlinePart(1)>>,
              <<TextPart, InlinePart(1)>>, <<InlinePart(1), InlinePart(2)>>}
Candidate(content) == [content |-> content]
ImageResponses ==
  {[candidates |-> Absent], [candidates |-> Value(<<>>)],
   [candidates |-> Value(<<Candidate(Absent)>>)],
   [candidates |-> Value(<<Candidate(Value([parts |-> Absent]))>>)]}
  \cup {[candidates |-> Value(<<Candidate(Value([parts |-> Value(parts)]))>>)] :
          parts \in PartLists}
TextResponses ==
  {[text |-> Absent], [text |-> Value(<<>>)], [text |-> Value(ACat)],
   [text |-> Value(CatAnime)]}

Upstream(responses) ==
  {Resolves(response) : response \in responses}
  \cup {Rejects(error) : error \in Errors}

CallOf(fn, flag, upstream) == [fn |-> fn, flag |-> flag, upstream |-> upstream]

Calls ==
  {CallOf("generateImage", usePro, upstream) :
     usePro \in BOOLEAN, upstream \in Upstream(ImageResponses)}
  \cup {CallOf("editImage", FALSE, upstream) : upstream \in Upstream(ImageResponses)}
  \cup {CallOf("sendChatMessage", useThinking, upstream) :
          useThinking \in BOOLEAN, upstream \in Upstream(TextResponses)}

InitService ==
  /\ targ \in Calls
  /\ tres = NoResult
  /\ IdleBut(0)

Settle(outcome) ==
  /\ ~tres.called
  /\ tres' = Result(outcome)
  /\ UNCHANGED <<targ, inputs>>
  /\ TextSame

GenerateImage ==
  /\ targ.fn = "generateImage"
  /\ Settle(generateImage(targ.upstream, targ.flag))

EditImage ==
  /\ targ.fn = "editImage"
  /\ Settle(editImage(targ.upstream))

SendChatMessage ==
  /\ targ.fn = "sendChatMessage"
  /\ Settle(sendChatMessage(targ.upstream, targ.flag))

NextService == GenerateImage \/ EditImage \/ SendChatMessage

SpecService == InitService /\ [][NextService]_vars

(***************************************************************************)
(* Properties of the enhanced prompt                                       *)
(***************************************************************************)
\* '**Enhanced Prompt:**' is at p and no emphasised label is before it
FirstLabelAt(str, p) ==
  /\ IncludesAt(str, p, StarredLabel)
  /\ \A p0 \in 1..(p - 1) :
       ~(str[p0] = "*" /\ WordAt(str, p0 + 1, EnhancedPromptLabel))

\* at q a line ends and the next line that is not blank starts with an
\* emphasised Style or Options label or with '---'
SectionAfter(str, q) ==
  /\ str[q] = "\n"
  /\ \E r \in (q + 1)..Len(str) :
       /\ \A i \in (q + 1)..(r - 1) : IsSpace(str[i])
       /\ \/ IncludesAt(str, r, Rule)
          \/ /\ str[r] = "*"
             /\ \E n \in 1..2, word \in {StyleLabel, OptionsLabel} :
                  /\ \A i \in r..(r + n - 1) : str[i] = "*"
                  /\ WordAt(str, r + n, word)

\* the text between the label at p and the first section after it
Between(str, p) ==
  LET a == p + Len(StarredLabel)
      q == CHOOSE q \in a..Len(str) :
             SectionAfter(str, q) /\ \A j \in a..(q - 1) : ~SectionAfter(str, j)
  IN  Trimmed(SubSeq(str, a, q - 1))

HasSection(str, p) ==
  \E q \in (p + Len(StarredLabel))..Len(str) : SectionAfter(str, q)

\* what the handler that ran last put in the prompt field or saved
Shown(value) ==
  /\ tres.value.site \in {"use", "enhance"} => ui.prompt = value
  /\ tres.value.site = "save" /\ Persisted(last) =>
       Prompts # <<>> /\ Prompts[1].text = value

\* C14: when the '**Enhanced Prompt:**' label is followed by text and then by
\* a line starting with a Style or Options label or a '---' separator, the
\* extracted prompt is the text between the label and that line, trimmed,
\* and it is what the Use button and the Enhance action put in the prompt.
C14_TextBetween ==
  tres.called =>
    \A p \in 1..Len(targ) :
      (/\ FirstLabelAt(targ, p)
       /\ HasSection(targ, p)
       /\ Between(targ, p) # <<>>) =>
        /\ tres.value.text = Between(targ, p)
        /\ Shown(Between(targ, p))

C14_Witness ==
  /\ targ = CatAnime
  /\ tres.called /\ tres.value.site = "enhance"
  /\ ui.prompt = <<"A", " ", "c", "a", "t", ".">>

\* C15: when the '**Enhanced Prompt:**' label is followed by text that runs to
\* the end of the response, with no section after it, the extracted prompt is
\* that text trimmed, without the label and its emphasis markers.
C15_TextToEnd ==
  tres.called =>
    \A p \in 1..Len(targ) :
      (/\ FirstLabelAt(targ, p)
       /\ ~HasSection(targ, p)
       /\ ~TrimIsEmpty(SubSeq(targ, p + Len(StarredLabel), Len(targ)))) =>
        tres.value.text = Trimmed(SubSeq(targ, p + Len(StarredLabel), Len(targ)))

\* C16: the labels are recognised without emphasis markers too: from
\* 'Enhanced Prompt: A cat.' followed by the line 'Style Suggestions:' the
\* handlers extract what they extract from the same response with '**'
\* around both labels, which is 'A cat.'.
C16_BareLabels ==
  (tres.called /\ targ = CatBare) =>
    /\ tres.value.text = extractedPrompt(CatStarred)
    /\ tres.value.text = <<"A", " ", "c", "a", "t", ".">>

\* C17: a step of a handler on a response that has no 'Enhanced Prompt' label
\* in any letter case extracts the empty value, leaves the prompt field as it
\* was and saves nothing.
C17_NoLabelNoChange ==
  [][(~tres.called /\ tres'.called /\ LabelFrom(targ, 1) = 0) =>
       /\ tres'.value.text = <<>>
       /\ ui'.prompt = ui.prompt
       /\ ls' = ls]_vars

(***************************************************************************)
(* Properties of extractStyles                                             *)
(***************************************************************************)
\* the length of the bullet marker a line begins with, 0 when it begins with
\* none: an asterisk, a hyphen, the bullet character, or digits and a period
BulletMarker(line) ==
  IF line = <<>> THEN 0
  ELSE IF line[1] \in {"*", "-", Bullet} THEN 1
  ELSE IF /\ DigitRun(line, 1) >= 1
          /\ DigitRun(line, 1) < Len(line)
          /\ line[DigitRun(line, 1) + 1] = "."
       THEN DigitRun(line, 1) + 1
  ELSE 0

WithoutBullet(line) ==
  SubSeq(line, 1 + BulletMarker(line) + SpaceRun(line, 1 + BulletMarker(line)),
         Len(line))

\* the lines of the section, each trimmed
SectionLines(str) ==
  IF StyleMatch(str, 1).found
  THEN Map(Lines(StyleMatch(str, 1).group, 1), LAMBDA line : Trimmed(line))
  ELSE <<>>

\* C18: extractStyles returns, in their order, the lines of the Style
\* Suggestions section that begin with a bullet marker, each without that
\* marker and the white space after it, and the empty list when there is no
\* section; the example response gives the one style 'Anime'.
C18_BulletLines ==
  tres.called =>
    /\ tres.value = Map(SelectSeq(SectionLines(targ),
                                  LAMBDA line : BulletMarker(line) > 0),
                        LAMBDA line : WithoutBullet(line))
    /\ targ = CatAnime => tres.value = <<Anime>>

(***************************************************************************)
(* Properties of the wrappers                                              *)
(***************************************************************************)
\* the failure carries status 403 or PERMISSION_DENIED (429 or
\* RESOURCE_EXHAUSTED)
PermissionFailure(error) ==
  error.status = Value(403) \/ includes(error.message, PermissionDenied)
RateLimitFailure(error) ==
  error.status = Value(429) \/ includes(error.message, ResourceExhausted)

\* the call went to the Pro model
ProPath(request) == request.flag /\ request.fn \in {"generateImage", "sendChatMessage"}

\* C19: a failed upstream call is rejected with one message: a permission
\* failure with 'Access Denied', for the Pro model when the Pro path was
\* used and the generic one otherwise; a rate-limit failure with 'Rate limit
\* exceeded'; every other failure with its own message unchanged.
C19_OneMessageClass ==
  (tres.called /\ ~targ.upstream.ok) =>
    LET error == targ.upstream.payload
    IN  /\ ~tres.value.ok
        /\ PermissionFailure(error) =>
             tres.value.payload =
               IF ProPath(targ) THEN AccessDeniedPro ELSE AccessDenied
        /\ (RateLimitFailure(error) /\ ~PermissionFailure(error)) =>
             tres.value.payload = RateLimitExceeded
        /\ (/\ ~PermissionFailure(error)
            /\ ~RateLimitFailure(error)
            /\ error.message # <<>>) =>
             tres.value.payload = error.message

\* the response of a successful upstream call has no image part (no text)
NoPayload(request) ==
  IF request.fn = "sendChatMessage"
  THEN ~request.upstream.payload.text.some \/ request.upstream.payload.text.v = <<>>
  ELSE \A parts \in PartLists :
         request.upstream.payload.candidates =
           Value(<<Candidate(Value([parts |-> Value(parts)]))>>)
         => FirstInline(parts, 1) = 0

\* C20: when the upstream call succeeds without an image part (without text)
\* the wrapper rejects; it never resolves with a payload of its own.
C20_NoPayloadRejects ==
  (tres.called /\ targ.upstream.ok /\ NoPayload(targ)) => ~tres.value.ok

\* C28: while the History view is mounted the list it displays is the
\* persisted history, also after a generation that settles while the view
\* is shown and after a delete whose write failed.
C28_ViewShowsStore ==
  mode = HISTORY => ui.items = History

(***************************************************************************)
(* Properties of the actions and their upstream calls                      *)
(***************************************************************************)
\* the step that settles an upstream call, and the one that settles the
\* call of a generate, edit or chat action with a rejection
Settling == done'.id # done.id
Rejection == Settling /\ done'.kind = "action" /\ ~done'.ok
Awaited(requests) == {r.id : r \in requests}

\* C21: a generate, edit or chat action makes one upstream call when it
\* starts and none when the call settles; when the call rejects, the store
\* is left as it was, no call is made in its place, and the component that
\* made it, if still mounted, shows an error message and is no longer busy.
C21_OneCallNoRetry ==
  [][/\ nreq' \in {nreq, nreq + 1}
     /\ nreq' = nreq + 1 =>
          /\ ~Settling
          /\ Awaited(reqs') = Awaited(reqs) \cup {nreq'}
          /\ \E r \in reqs' : r.id = nreq' /\ r.inst = inst /\ r.mode = mode
     /\ Settling =>
          /\ nreq' = nreq
          /\ done'.id \in Awaited(reqs)
          /\ Awaited(reqs') = Awaited(reqs) \ {done'.id}
     /\ Rejection =>
          /\ ls' = ls
          /\ done'.mounted =>
               /\ ~ui'.isGenerating
               /\ IF mode = ASSISTANT
                  THEN ui'.messages = Append(ui.messages, "error")
                  ELSE ui'.error # null]_vars

C21_Witness ==
  /\ mode = EDITOR /\ nreq = 1 /\ reqs = {}
  /\ done.id = 1 /\ ~done.ok /\ done.mounted
  /\ ui.error # null /\ ~ui.isGenerating
  /\ History = <<>>

\* the edit requests the mounted Editor awaits
Edits(requests, mounting) ==
  {r \in requests : r.inst = mounting /\ r.mode = EDITOR /\ r.kind = "action"}

\* C29: the Editor awaits at most one editImage call at a time, isProcessing
\* is true while it awaits one, and the result it comes to display is that
\* of the edit submitted last.
C29_OneEditInFlight ==
  [][/\ mode' = EDITOR =>
          /\ Cardinality(Edits(reqs', inst')) <= 1
          /\ Edits(reqs', inst') # {} => ui'.isGenerating
     /\ (Success /\ mode = EDITOR) =>
          \A r \in Edits(reqs, inst) : r.id <= done'.id]_vars

\* C30: a generate, edit, enhance or chat action that has started, and so
\* set its busy flag (isGenerating, isProcessing, isLoading; isEnhancing),
\* clears the flag in the end, whether its upstream call resolves or
\* rejects.
C30_BusyCleared ==
  /\ ui.isGenerating ~> ~ui.isGenerating
  /\ ui.isEnhancing ~> ~ui.isEnhancing

C30_Witness ==
  /\ mode = GENERATOR /\ done.mounted /\ ~done.ok /\ done.kind = "enhance"
  /\ nreq = 2 /\ reqs = {} /\ ~ui.isEnhancing /\ ~ui.isGenerating
====
